---- MODULE Spec2Model ----
(***************************************************************************)
(* A model of the isometric tile compositor:                               *)
(*   - the painter's-order traversal of get_objects (src/src/lib.rs),      *)
(*   - the geometry kernel contains / obscures / del_if_obscured_by        *)
(*     (src/src/shapes.rs), with the IEEE-754 behaviour (NaN, infinities,  *)
(*     signed zero) of the f64 expressions it evaluates,                   *)
(*   - the path encoder ToSvgCommandIter and the path decoder              *)
(*     SvgPointIter / PrimitiveIter (src/src/iter.rs).                     *)
(* Each part has its own specification over the shared variables; the     *)
(* variables of the other parts stay idle in it.                           *)
(***************************************************************************)
EXTENDS Integers, Sequences, FiniteSets

VARIABLES
    \* get_objects: the traversal loops
    grid_size,      \* [x, y, z]: the grid's dimensions
    depth, x, y,    \* the three loop counters
    gpc,            \* "loop": about to run the body for (depth, x, y); "done"
    order,          \* the cells whose body ran, in order
    underflow,      \* a usize subtraction went below zero
    oob,            \* grid[x][y][z] was indexed outside the grid
    \* geometry kernel
    poly,           \* the polygon handed to the kernel, built vertex by vertex
    res,            \* the last kernel call: its arguments and its result
    \* encoder
    points,         \* the encoder's input point list
    enc,            \* the fields of ToSvgCommandIter
    cmds,           \* the commands next() has returned so far
    none_calls,     \* how many calls of next() returned None
    d_string,       \* the characters generate_d collected (once decoded)
    decoded,        \* PrimitiveIter's output for d_string (once decoded)
    \* decoder
    path,           \* the characters of the d attribute handed to from_str
    stream,         \* the command list FromSvgCommandIter yields
    dec,            \* the fields of SvgPointIter (command_iter: commands taken)
    pairs,          \* the (point, ret) pairs SvgPointIter::next has returned
    prims,          \* the primitives PrimitiveIter::next has returned
    dec_done,       \* the iterator the caller drives has returned None
    dec_panic,      \* a call panicked
    \* get_objects: the compositor
    shapes,         \* the prototype table: tile id -> Option of a heap address
    heap,           \* the Rc<RefCell<Shape>> allocations: address -> Shape
    grid,           \* the tile ids of the cells read so far: position -> id
    connections,    \* the equivalence groups, each a set of positions
    to_draw,        \* the placement records (shape: Option of address, pos)
    placed,         \* a log of the placements: position, address, new_shape
    objects,        \* the returned shape list (once the loops have ended)
    \* ObjectSvgIter
    svg_shapes,     \* the shape list handed to from_vec
    svg,            \* the fields of ObjectSvgIter (shape_iter: shapes taken)
    events          \* what next() has returned so far, call by call

gridVars == <<grid_size, depth, x, y, gpc, order, underflow, oob>>
geomVars == <<poly, res>>
encVars  == <<points, enc, cmds, none_calls, d_string, decoded>>
decVars  == <<path, stream, dec, pairs, prims, dec_done, dec_panic>>
compVars == <<shapes, heap, grid, connections, to_draw, placed, objects>>
svgVars  == <<svg_shapes, svg, events>>
vars == <<gridVars, geomVars, encVars, decVars, compVars, svgVars>>

Vec2(a, b) == [x |-> a, y |-> b]
Vec3(a, b, c) == [x |-> a, y |-> b, z |-> c]
Min(a, b) == IF a <= b THEN a ELSE b

\* Option<T>: None is <<>>, Some(v) is <<v>>
None == <<>>
Some(v) == <<v>>

\* The idle values of each part's variables
GridIdle ==
    /\ grid_size = Vec3(0, 0, 0) /\ depth = 0 /\ x = 0 /\ y = 0
    /\ gpc = "idle" /\ order = <<>> /\ underflow = FALSE /\ oob = FALSE
GeomIdle == poly = <<>> /\ res = [op |-> "idle"]
EncIdle ==
    /\ points = <<>> /\ enc = [idle |-> TRUE] /\ cmds = <<>>
    /\ none_calls = 0 /\ d_string = <<>> /\ decoded = None
DecIdle ==
    /\ path = <<>> /\ stream = <<>> /\ dec = [idle |-> TRUE] /\ pairs = <<>>
    /\ prims = <<>> /\ dec_done = FALSE /\ dec_panic = FALSE
CompIdle ==
    /\ shapes = <<>> /\ heap = <<>> /\ grid = <<>> /\ connections = <<>>
    /\ to_draw = <<>> /\ placed = <<>> /\ objects = None
SvgIdle == svg_shapes = <<>> /\ svg = [idle |-> TRUE] /\ events = <<>>

(***************************************************************************)
(* get_objects: the traversal (lib.rs 200-205)                             *)
(***************************************************************************)
MaxDim == 3

\* for depth in 0..grid_size.x + grid_size.y + grid_size.z
DepthBound(gs) == gs.x + gs.y + gs.z

\* for x in 0..usize::min(grid_size.x, depth + 1)
XBound(gs, d) == Min(gs.x, d + 1)

\* for y in 0..usize::min(grid_size.y, depth + 1 - x)
YBoundOffByOne(gs, d, xx) == Min(gs.y, d - xx)
YBound(gs, d, xx) == Min(gs.y, d + 1 - xx)

\* The first iteration of the y loop at or after (d, xx), running into the
\* following x and depth iterations when a range is empty; "done" at the end.
RECURSIVE FirstIter(_, _, _)
FirstIter(gs, d, xx) ==
    IF d >= DepthBound(gs) THEN [done |-> TRUE, depth |-> d, x |-> 0, y |-> 0]
    ELSE IF xx >= XBound(gs, d) THEN FirstIter(gs, d + 1, 0)
    ELSE IF 0 >= YBound(gs, d, xx) THEN FirstIter(gs, d, xx + 1)
    ELSE [done |-> FALSE, depth |-> d, x |-> xx, y |-> 0]

\* The iteration after the body of (d, xx, yy)
NextIter(gs, d, xx, yy) ==
    IF yy + 1 < YBound(gs, d, xx)
    THEN [done |-> FALSE, depth |-> d, x |-> xx, y |-> yy + 1]
    ELSE FirstIter(gs, d, xx + 1)

\* let z = depth - x - y
ZOf(d, xx, yy) == d - xx - yy

GridInit ==
    /\ grid_size \in {Vec3(a, b, c) : a \in 1..MaxDim, b \in 1..MaxDim, c \in 1..MaxDim}
    /\ LET it == FirstIter(grid_size, 0, 0)
       IN /\ depth = it.depth /\ x = it.x /\ y = it.y
          /\ gpc = IF it.done THEN "done" ELSE "loop"
    /\ order = <<>>
    /\ underflow = FALSE
    /\ oob = FALSE

Advance ==
    LET it == NextIter(grid_size, depth, x, y)
    IN /\ depth' = it.depth /\ x' = it.x /\ y' = it.y
       /\ gpc' = IF it.done THEN "done" ELSE "loop"

Underflows(d, xx, yy) == d + 1 - xx < 0 \/ d - xx < 0 \/ d - xx - yy < 0

\* if z >= grid_size.z { continue; }
SkipCell ==
    /\ gpc = "loop"
    /\ ZOf(depth, x, y) >= grid_size.z
    /\ underflow' = (underflow \/ Underflows(depth, x, y))
    /\ Advance
    /\ UNCHANGED <<grid_size, order, oob>>
    /\ UNCHANGED <<geomVars, encVars, decVars, compVars, svgVars>>

\* the loop body is entered: grid[x][y][z] is read
ReadCell ==
    /\ gpc = "loop"
    /\ ZOf(depth, x, y) < grid_size.z
    /\ underflow' = (underflow \/ Underflows(depth, x, y))
    /\ oob' = (oob \/ ~(/\ x \in 0..(grid_size.x - 1)
                        /\ y \in 0..(grid_size.y - 1)
                        /\ ZOf(depth, x, y) \in 0..(grid_size.z - 1)))
    /\ order' = Append(order, Vec3(x, y, ZOf(depth, x, y)))
    /\ Advance
    /\ UNCHANGED grid_size

\* the loop body, whatever the cell holds
VisitCell ==
    /\ ReadCell
    /\ UNCHANGED <<geomVars, encVars, decVars, compVars, svgVars>>

(***************************************************************************)
(* f64 arithmetic of the kernel (shapes.rs 244-275, 547-552).              *)
(* Coordinates are integer-valued and never -0.0. A product or difference  *)
(* is [v, neg]: its exact value and its sign bit (which matters for a      *)
(* zero: signum(-0.0) = -1.0 and x / -0.0 = -x / 0.0). A quotient is       *)
(* [k, n, d, neg]: NaN (0/0), an infinity (x/0) or the exact n/d; all the  *)
(* code does with a quotient is compare it with 0.0 and 1.0, which         *)
(* rounding cannot change for operands this small.                         *)
(***************************************************************************)
VSub(a, b) == Vec2(a.x - b.x, a.y - b.y)

\* a * b of two coordinates
FMul(a, b) == [v |-> a * b, neg |-> IF a * b = 0 THEN (a < 0) # (b < 0) ELSE a * b < 0]

\* A - B: x - x is +0.0, (-0.0) - (+0.0) is -0.0, every other zero result +0.0
FSub(A, B) ==
    [v |-> A.v - B.v,
     neg |-> IF A.v - B.v # 0 THEN A.v - B.v < 0
             ELSE A.v = 0 /\ A.neg /\ ~B.neg]

\* Vec2::cross (vector.rs 48-50): self.x * other.y - self.y * other.x
Cross(u, w) == FSub(FMul(u.x, w.y), FMul(u.y, w.x))

\* f64::signum: 1.0 for +0.0 and above, -1.0 for -0.0 and below
Signum(A) == IF A.neg THEN -1 ELSE 1

\* A / B
FDiv(A, B) ==
    IF B.v = 0
    THEN IF A.v = 0 THEN [k |-> "nan", n |-> 0, d |-> 0, neg |-> FALSE]
         ELSE [k |-> "inf", n |-> A.v, d |-> 0, neg |-> A.neg # B.neg]
    ELSE [k |-> "fin", n |-> A.v, d |-> B.v, neg |-> A.neg # B.neg]

IsNaN(q) == q.k = "nan"
\* 0.0 <= q, 0.0 < q, q <= 1.0, q < 1.0, q == 0.0, q > 0.0 (all false for NaN)
ZeroLe(q) == (q.k = "fin" /\ q.n * q.d >= 0) \/ (q.k = "inf" /\ ~q.neg)
ZeroLt(q) == (q.k = "fin" /\ q.n * q.d > 0) \/ (q.k = "inf" /\ ~q.neg)
LeOne(q) ==
    \/ q.k = "fin" /\ ((q.d > 0 /\ q.n <= q.d) \/ (q.d < 0 /\ q.n >= q.d))
    \/ q.k = "inf" /\ q.neg
LtOne(q) ==
    \/ q.k = "fin" /\ ((q.d > 0 /\ q.n < q.d) \/ (q.d < 0 /\ q.n > q.d))
    \/ q.k = "inf" /\ q.neg
EqZero(q) == q.k = "fin" /\ q.n = 0

\* shapes.rs 547-552
intersection_parameters(p_1, d_1, p_2, d_2) ==
    [lambda |-> FDiv(Cross(VSub(p_2, p_1), d_2), Cross(d_1, d_2)),
     mu     |-> FDiv(Cross(VSub(p_1, p_2), d_1), Cross(d_2, d_1))]

(***************************************************************************)
(* Polygonal for ShapePrimitive (shapes.rs 323-334)                        *)
(***************************************************************************)
points_iter(a) == a

\* circular_tuple_windows: (p1,p2), ..., (pn,p1)
lines_iter(a) == [i \in 1..Len(a) |-> <<a[i], a[(i % Len(a)) + 1]>>]

(***************************************************************************)
(* contains (shapes.rs 244-275): the loop from edge i on                   *)
(***************************************************************************)
RECURSIVE ContainsFrom(_, _, _, _, _, _)
ContainsFrom(lines, i, p, direction, intersections, sp_0) ==
    IF i > Len(lines) THEN (intersections % 2) = 1
    ELSE
    LET sp_1 == lines[i][1]
        sp_2 == lines[i][2]
        edge == VSub(sp_2, sp_1)
        prev_edge == VSub(sp_1, sp_0)
        first == intersection_parameters(sp_1, edge, p, direction)
        retry == IsNaN(first.lambda) \/ IsNaN(first.mu)
        dir == IF retry THEN Vec2(0, 1) ELSE direction
        ip == IF retry THEN intersection_parameters(sp_1, edge, p, dir) ELSE first
        lambda == ip.lambda
        mu == ip.mu
        crosses ==
            /\ \/ ZeroLt(lambda) /\ LtOne(lambda)
               \/ EqZero(lambda) /\ Signum(Cross(prev_edge, dir)) = Signum(Cross(edge, dir))
            /\ ZeroLt(mu)
    IN  IF ZeroLe(lambda) /\ LeOne(lambda) /\ EqZero(mu) THEN TRUE
        ELSE ContainsFrom(lines, i + 1, p, dir,
                          IF crosses THEN intersections + 1 ELSE intersections, sp_1)

contains(a, p) ==
    IF Len(points_iter(a)) = 0 THEN FALSE
    ELSE ContainsFrom(lines_iter(a), 1, p, Vec2(1, 0), 0,
                      points_iter(a)[Len(points_iter(a))])

\* obscures (shapes.rs 276-283): the loop from point i of b on
RECURSIVE ObscuresFrom(_, _, _)
ObscuresFrom(a, pts, i) ==
    IF i > Len(pts) THEN TRUE
    ELSE IF ~contains(a, pts[i]) THEN FALSE
    ELSE ObscuresFrom(a, pts, i + 1)

obscures(a, b) == ObscuresFrom(a, points_iter(b), 1)

\* OptObscurable for Option<ShapePrimitive> (shapes.rs 516-529)
PrimitiveDelIfObscuredBy(self, other) ==
    IF self = None THEN self
    ELSE IF obscures(other, self[1]) THEN None ELSE Some(self[1])

(***************************************************************************)
(* The kernel's inputs: polygons with vertices on a bounded integer grid,  *)
(* and the geometric reference the kernel's answers are compared with.     *)
(***************************************************************************)
MaxCoord == 2
MaxVerts == 6
MaxTarget == 3
MaxOccluder == 3

Coords == 0..MaxCoord
GridPoints == {Vec2(a, b) : a \in Coords, b \in Coords}

Sgn(n) == IF n > 0 THEN 1 ELSE IF n < 0 THEN -1 ELSE 0
\* twice the signed area of the triangle a, b, c
Orient(a, b, c) == (b.x - a.x) * (c.y - a.y) - (b.y - a.y) * (c.x - a.x)
\* p lies on the closed segment a-b
OnSegment(a, b, p) ==
    /\ Orient(a, b, p) = 0
    /\ Min(a.x, b.x) <= p.x /\ p.x <= -Min(-a.x, -b.x)
    /\ Min(a.y, b.y) <= p.y /\ p.y <= -Min(-a.y, -b.y)
\* the closed segments a-b and c-d have a common point
SegmentsMeet(a, b, c, d) ==
    \/ /\ Sgn(Orient(a, b, c)) * Sgn(Orient(a, b, d)) < 0
       /\ Sgn(Orient(c, d, a)) * Sgn(Orient(c, d, b)) < 0
    \/ OnSegment(a, b, c) \/ OnSegment(a, b, d)
    \/ OnSegment(c, d, a) \/ OnSegment(c, d, b)

\* Edges e and f (pairs of end points) of one outline are compatible: two edges
\* that follow each other share only their common vertex, two others share nothing.
EdgesCompatible(e, f) ==
    IF e[2] = f[1] /\ e[1] = f[2] THEN FALSE
    ELSE IF e[2] = f[1] THEN ~OnSegment(e[1], e[2], f[2]) /\ ~OnSegment(f[1], f[2], e[1])
    ELSE IF f[2] = e[1] THEN ~OnSegment(f[1], f[2], e[2]) /\ ~OnSegment(e[1], e[2], f[1])
    ELSE ~SegmentsMeet(e[1], e[2], f[1], f[2])

Distinct(a) == \A i, j \in 1..Len(a) : i # j => a[i] # a[j]

\* a is a simple polygon: at least 3 distinct vertices, a closed outline that
\* neither touches nor crosses itself (a straight vertex is allowed)
IsSimple(a) ==
    /\ Len(a) >= 3
    /\ Distinct(a)
    /\ \A i, j \in 1..Len(a) : i < j => EdgesCompatible(lines_iter(a)[i], lines_iter(a)[j])

\* the open outline a[1] .. a[n] neither touches nor crosses itself
IsSimpleChain(a) ==
    /\ Distinct(a)
    /\ \A i, j \in 1..(Len(a) - 1) :
          i < j => EdgesCompatible(<<a[i], a[i + 1]>>, <<a[j], a[j + 1]>>)

\* p lies on an edge or a vertex of a
OnBoundary(a, p) == \E i \in 1..Len(a) : OnSegment(lines_iter(a)[i][1], lines_iter(a)[i][2], p)

\* Even-odd reference for a point off the boundary: the edges that the ray from
\* p towards +x crosses, an edge counting when its end points lie on different
\* sides of the ray's line (a vertex on the line belongs to the lower side).
RayCrossesEdge(e, p) ==
    LET a == e[1]
        b == e[2]
        dy == b.y - a.y
        t == (a.x - p.x) * dy + (p.y - a.y) * (b.x - a.x)
    IN /\ (a.y > p.y) # (b.y > p.y)
       /\ (dy > 0 /\ t > 0) \/ (dy < 0 /\ t < 0)
InteriorRef(a, p) ==
    Cardinality({i \in 1..Len(a) : RayCrossesEdge(lines_iter(a)[i], p)}) % 2 = 1

\* a listed from its k-th vertex on, and a listed backwards
Rotate(a, k) == [i \in 1..Len(a) |-> a[((i + k - 2) % Len(a)) + 1]]
Reverse(a) == [i \in 1..Len(a) |-> a[Len(a) + 1 - i]]
Variants(a) == {Rotate(a, k) : k \in 1..Len(a)} \cup {Rotate(Reverse(a), k) : k \in 1..Len(a)}

\* the point lists of at most n grid points
RECURSIVE PointLists(_)
PointLists(n) ==
    IF n = 0 THEN {<<>>}
    ELSE PointLists(n - 1) \cup
         {Append(t, v) : t \in {u \in PointLists(n - 1) : Len(u) = n - 1}, v \in GridPoints}

GeomInit == poly = <<>> /\ res = [op |-> "idle"]

\* the caller appends one more vertex to the polygon
AddVertex(limit) ==
    /\ res.op = "idle"
    /\ Len(poly) < limit
    /\ \E v \in GridPoints :
          /\ IsSimpleChain(Append(poly, v))
          /\ poly' = Append(poly, v)
    /\ UNCHANGED res
    /\ UNCHANGED <<gridVars, encVars, decVars, compVars, svgVars>>

\* contains(&poly, p)
CallContains ==
    /\ res.op = "idle"
    /\ IsSimple(poly)
    /\ \E p \in GridPoints :
          res' = [op |-> "contains", a |-> poly, p |-> p, val |-> contains(poly, p)]
    /\ UNCHANGED poly
    /\ UNCHANGED <<gridVars, encVars, decVars, compVars, svgVars>>

\* obscures(&a, &b) for poly and one of its re-listings, either way round
CallObscures ==
    /\ res.op = "idle"
    /\ IsSimple(poly)
    /\ \E q \in Variants(poly) : \E ab \in {<<poly, q>>, <<q, poly>>} :
          res' = [op |-> "obscures", a |-> ab[1], b |-> ab[2], val |-> obscures(ab[1], ab[2])]
    /\ UNCHANGED poly
    /\ UNCHANGED <<gridVars, encVars, decVars, compVars, svgVars>>

\* contains(&poly, p) for a polygon of fewer than three vertices
CallContainsDegenerate ==
    /\ res.op = "idle"
    /\ Len(poly) < 3
    /\ \E p \in GridPoints :
          res' = [op |-> "contains", a |-> poly, p |-> p, val |-> contains(poly, p)]
    /\ UNCHANGED poly
    /\ UNCHANGED <<gridVars, encVars, decVars, compVars, svgVars>>

\* obscures(&a, &b) with a polygon of fewer than three vertices as a or as b
CallObscuresDegenerate ==
    /\ res.op = "idle"
    /\ Len(poly) < 3
    /\ \E q \in PointLists(MaxTarget) : \E ab \in {<<poly, q>>, <<q, poly>>} :
          res' = [op |-> "obscures", a |-> ab[1], b |-> ab[2], val |-> obscures(ab[1], ab[2])]
    /\ UNCHANGED poly
    /\ UNCHANGED <<gridVars, encVars, decVars, compVars, svgVars>>

\* Some(t).del_if_obscured_by(&poly) and None.del_if_obscured_by(&poly)
CallDelIfObscuredBy ==
    /\ res.op = "idle"
    /\ IsSimple(poly)
    /\ \E self \in {None} \cup {Some(t) : t \in PointLists(MaxTarget)} :
          res' = [op |-> "del_if_obscured_by", self |-> self, other |-> poly,
                  val |-> PrimitiveDelIfObscuredBy(self, poly)]
    /\ UNCHANGED poly
    /\ UNCHANGED <<gridVars, encVars, decVars, compVars, svgVars>>


(***************************************************************************)
(* path.rs: Command { cmd_type, params }                                   *)
(***************************************************************************)
Command(t, ps) == [cmd_type |-> t, params |-> ps]

(***************************************************************************)
(* The encoder, ToSvgCommandIter (iter.rs 111-229). points_iter is the     *)
(* number of points the iterator has handed out.                           *)
(***************************************************************************)
\* ToSvgCommandIter::from_vec (iter.rs 120-129)
ToSvgCommandIterFromVec ==
    [points_iter |-> 0, first |-> TRUE, last_point |-> Vec2(0, 0),
     current_point |-> Vec2(0, 0), closed |-> FALSE, finished |-> FALSE]

\* while let Some(next_point) = self.points_iter.next() { ... } (iter.rs 142-151)
RECURSIVE MoveLoop(_, _, _)
MoveLoop(s, pts, params) ==
    IF s.points_iter >= Len(pts) THEN [s |-> s, params |-> params]
    ELSE
    LET next_point == pts[s.points_iter + 1]
        s1 == [s EXCEPT !.points_iter = @ + 1,
                        !.last_point = s.current_point,
                        !.current_point = next_point]
    IN  IF s1.last_point.x = s1.current_point.x \/ s1.last_point.y = s1.current_point.y
        THEN [s |-> [s1 EXCEPT !.finished = FALSE], params |-> params]
        ELSE MoveLoop(s1, pts, params \o <<next_point.x, next_point.y>>)

\* The loop conditions of the three run branches (iter.rs 156, 173, 190)
RunContinues(t, next_point, current_point) ==
    CASE t = "VertAbs"   -> next_point.x = current_point.x
      [] t = "HorizAbs"  -> next_point.y = current_point.y
      [] t = "LineToAbs" -> next_point.x # current_point.x \/ next_point.y # current_point.y

\* What a run branch pushes for a point (iter.rs 155/157, 172/174, 189/191-192)
RunParamsSwapped(t, q) ==
    CASE t = "VertAbs"   -> <<q.x>>
      [] t = "HorizAbs"  -> <<q.y>>
      [] t = "LineToAbs" -> <<q.x, q.y>>
RunParams(t, q) ==
    CASE t = "VertAbs"   -> <<q.y>>
      [] t = "HorizAbs"  -> <<q.x>>
      [] t = "LineToAbs" -> <<q.x, q.y>>

\* while <condition> { push; shift; next_point = next or { finished; break } }
RECURSIVE RunLoop(_, _, _, _, _)
RunLoop(t, s, pts, next_point, params) ==
    IF ~RunContinues(t, next_point, s.current_point)
    THEN [s |-> s, next_point |-> next_point, params |-> params]
    ELSE
    LET s1 == [s EXCEPT !.last_point = s.current_point, !.current_point = next_point]
        params1 == params \o RunParams(t, next_point)
    IN  IF s1.points_iter < Len(pts)
        THEN RunLoop(t, [s1 EXCEPT !.points_iter = @ + 1], pts,
                     pts[s1.points_iter + 1], params1)
        ELSE [s |-> [s1 EXCEPT !.finished = TRUE], next_point |-> next_point,
              params |-> params1]

\* One run branch (iter.rs 154-170, 171-187, 188-205)
RunBranch(t, s, pts, next_point) ==
    LET r == RunLoop(t, s, pts, next_point, RunParams(t, s.current_point))
    IN  [s |-> [r.s EXCEPT !.last_point = r.s.current_point,
                           !.current_point = r.next_point],
         item |-> Some(Command(t, r.params))]

\* The alignment of current_point with last_point picks the opcode
Alignment(s) ==
    IF s.current_point.x = s.last_point.x THEN "VertAbs"
    ELSE IF s.current_point.y = s.last_point.y THEN "HorizAbs"
    ELSE "LineToAbs"

\* ToSvgCommandIter::next (iter.rs 134-228): the new fields and the item
ToSvgCommandIterNext(s, pts) ==
    IF s.points_iter < Len(pts)
    THEN LET next_point == pts[s.points_iter + 1]
             s0 == [s EXCEPT !.points_iter = @ + 1]
         IN  IF s.first
             THEN LET r == MoveLoop([s0 EXCEPT !.first = FALSE, !.finished = TRUE,
                                               !.current_point = next_point],
                                    pts, <<next_point.x, next_point.y>>)
                  IN  [s |-> r.s, item |-> Some(Command("MoveToAbs", r.params))]
             ELSE RunBranch(Alignment(s0), s0, pts, next_point)
    ELSE IF s.closed THEN [s |-> s, item |-> None]
    ELSE IF s.finished
    THEN [s |-> [s EXCEPT !.closed = TRUE], item |-> Some(Command("ClosePath", <<>>))]
    ELSE [s |-> [s EXCEPT !.finished = TRUE],
          item |-> Some(Command(Alignment(s), RunParams(Alignment(s), s.current_point)))]

(***************************************************************************)
(* The decoder: SvgPointIter (iter.rs 262-363) over the commands of        *)
(* FromSvgCommandIter, and PrimitiveIter (iter.rs 365-394).                *)
(* command_iter is the number of commands taken from the command list.     *)
(***************************************************************************)
\* self.command_iter.next()
CommandIterNext(n, cs) == IF n < Len(cs) THEN Some(cs[n + 1]) ELSE None

\* SvgPointIter::from_str (iter.rs 272-283)
SvgPointIterFromStr(cs) ==
    [command_iter |-> Min(1, Len(cs)), current_command |-> CommandIterNext(0, cs),
     current_point |-> Vec2(0, 0), start_point |-> Vec2(0, 0),
     pointer |-> 0, implicit_lineto |-> FALSE, ret |-> FALSE]

IsMove(t) == t \in {"MoveToAbs", "MoveToRel"}
IsPairCommand(t) == t \in {"MoveToAbs", "MoveToRel", "LineToAbs", "LineToRel"}
IsRelative(t) == t \in {"MoveToRel", "LineToRel", "VertRel", "HorizRel"}
\* how many parameters one repetition of the command reads
Arity(t) == IF IsPairCommand(t) THEN 2 ELSE IF t = "ClosePath" THEN 0 ELSE 1

\* The point a match arm leaves in current_point (iter.rs 297, 308, 319, 326,
\* 331, 336, 341, 346, 349): a and b are the parameters the arm reads
MovedRelativeFromOrigin(t, current_point, start_point, a, b) ==
    CASE t \in {"MoveToAbs", "LineToAbs", "MoveToRel", "LineToRel"} -> Vec2(a, b)
      [] t \in {"VertAbs", "VertRel"}   -> Vec2(current_point.x, a)
      [] t \in {"HorizAbs", "HorizRel"} -> Vec2(a, current_point.y)
      [] t = "ClosePath" -> start_point
Moved(t, current_point, start_point, a, b) ==
    CASE t \in {"MoveToAbs", "LineToAbs"} -> Vec2(a, b)
      [] t \in {"MoveToRel", "LineToRel"} -> Vec2(current_point.x + a, current_point.y + b)
      [] t = "VertAbs"   -> Vec2(current_point.x, a)
      [] t = "VertRel"   -> Vec2(current_point.x, current_point.y + a)
      [] t = "HorizAbs"  -> Vec2(a, current_point.y)
      [] t = "HorizRel"  -> Vec2(current_point.x + a, current_point.y)
      [] t = "ClosePath" -> start_point

\* The match arms (iter.rs 291-352): the fields after the arm
MatchArm(s, command) ==
    LET t == command.cmd_type
        moved == Moved(t, s.current_point, s.start_point,
                       command.params[s.pointer + 1], command.params[s.pointer + 2])
        sets_start == IsMove(t) /\ ~s.implicit_lineto
    IN  [s EXCEPT !.current_point = moved,
                  !.pointer = @ + Arity(t),
                  !.start_point = IF sets_start THEN moved ELSE @,
                  !.implicit_lineto = IF sets_start THEN TRUE ELSE @,
                  !.ret = (t = "ClosePath")]

\* if self.pointer == command.params.len() { advance } (iter.rs 353-357)
AdvanceKeepsImplicit(s, command, cs) ==
    IF s.pointer = Len(command.params)
    THEN [s EXCEPT !.current_command = CommandIterNext(s.command_iter, cs),
                   !.command_iter = Min(@ + 1, Len(cs)),
                   !.pointer = 0]
    ELSE s
AdvanceCommand(s, command, cs) ==
    IF s.pointer = Len(command.params)
    THEN [s EXCEPT !.current_command = CommandIterNext(s.command_iter, cs),
                   !.command_iter = Min(@ + 1, Len(cs)),
                   !.pointer = 0,
                   !.implicit_lineto = FALSE]
    ELSE s

\* SvgPointIter::next (iter.rs 288-362): the new fields, the item, and whether
\* the call panicked (params indexed past its end)
SvgPointIterNext(s, cs) ==
    IF s.current_command = None THEN [s |-> s, item |-> None, panic |-> FALSE]
    ELSE
    LET command == s.current_command[1]
    IN  IF s.pointer + Arity(command.cmd_type) > Len(command.params)
        THEN [s |-> s, item |-> None, panic |-> TRUE]
        ELSE LET s1 == AdvanceCommand(MatchArm(s, command), command, cs)
             IN  [s |-> s1, item |-> Some(<<s1.current_point, s1.ret>>), panic |-> FALSE]

\* while let Some((pt, ret)) = next { ... } (iter.rs 385-391): nx is the call
\* of point_iter.next() that produced `next`; taken lists the pairs drawn
RECURSIVE PrimitiveLoop(_, _, _, _)
PrimitiveLoop(nx, cs, result, taken) ==
    IF nx.panic THEN [s |-> nx.s, item |-> None, panic |-> TRUE, taken |-> taken]
    ELSE IF nx.item = None \/ nx.item[1][2]
    THEN [s |-> nx.s, item |-> Some(result), panic |-> FALSE, taken |-> taken \o nx.item]
    ELSE PrimitiveLoop(SvgPointIterNext(nx.s, cs), cs,
                       Append(result, nx.item[1][1]), taken \o nx.item)

\* PrimitiveIter::next (iter.rs 379-393)
PrimitiveIterNextKeepsEmptyTail(s, cs) ==
    PrimitiveLoop(SvgPointIterNext(s, cs), cs, <<>>, <<>>)
PrimitiveIterNext(s, cs) ==
    LET nx == SvgPointIterNext(s, cs)
    IN  IF ~nx.panic /\ nx.item = None
        THEN [s |-> nx.s, item |-> None, panic |-> FALSE, taken |-> <<>>]
        ELSE PrimitiveLoop(nx, cs, <<>>, <<>>)

\* primitives_iter.collect() (parser.rs 223-224): the primitives of the command
\* list, at most n of them
RECURSIVE CollectPrimitives(_, _, _)
CollectPrimitives(s, cs, n) ==
    LET r == PrimitiveIterNext(s, cs)
    IN  IF n = 0 \/ r.panic \/ r.item = None THEN <<>>
        ELSE <<r.item[1]>> \o CollectPrimitives(r.s, cs, n - 1)

(***************************************************************************)
(* The string layer: ToDStringIter (iter.rs 79-109) writes a command list  *)
(* as characters, FromSvgCommandIter (iter.rs 231-260) reads the commands  *)
(* PATH_REGEX (iter.rs 10-12) finds. Numbers are naturals here, which      *)
(* f64's to_string writes as their decimal digits.                         *)
(***************************************************************************)
DigitChars == <<"0", "1", "2", "3", "4", "5", "6", "7", "8", "9">>
IsDigit(ch) == \E k \in 1..10 : DigitChars[k] = ch
DigitVal(ch) == (CHOOSE k \in 1..10 : DigitChars[k] = ch) - 1

\* param.to_string()
RECURSIVE NumToString(_)
NumToString(n) ==
    IF n < 10 THEN <<DigitChars[n + 1]>>
    ELSE Append(NumToString(n \div 10), DigitChars[(n % 10) + 1])

\* num.parse::<f64>() for a token of digits; acc is the value read so far
RECURSIVE ParseNum(_, _)
ParseNum(tok, acc) ==
    IF tok = <<>> THEN acc ELSE ParseNum(Tail(tok), 10 * acc + DigitVal(Head(tok)))

\* CommandType::to_opcode (path.rs 37-49)
to_opcode(t) ==
    CASE t = "MoveToAbs" -> "M" [] t = "MoveToRel" -> "m"
      [] t = "LineToAbs" -> "L" [] t = "LineToRel" -> "l"
      [] t = "VertAbs"   -> "V" [] t = "VertRel"   -> "v"
      [] t = "HorizAbs"  -> "H" [] t = "HorizRel"  -> "h"
      [] t = "ClosePath" -> "z"

OpcodeChars == {"M", "m", "L", "l", "V", "v", "H", "h", "Z", "z"}

\* CommandType::from_opcode (path.rs 22-36)
from_opcode(ch) ==
    CASE ch = "M" -> "MoveToAbs" [] ch = "m" -> "MoveToRel"
      [] ch = "L" -> "LineToAbs" [] ch = "l" -> "LineToRel"
      [] ch = "V" -> "VertAbs"   [] ch = "v" -> "VertRel"
      [] ch = "H" -> "HorizAbs"  [] ch = "h" -> "HorizRel"
      [] ch \in {"Z", "z"} -> "ClosePath"

\* the characters ToDStringIter queues for the parameters: each number, then ' '
RECURSIVE ParamChars(_)
ParamChars(ps) ==
    IF ps = <<>> THEN <<>> ELSE NumToString(Head(ps)) \o <<" ">> \o ParamChars(Tail(ps))

\* ToDStringIter collected: per command its opcode and its parameters
RECURSIVE ToDString(_)
ToDString(cs) ==
    IF cs = <<>> THEN <<>>
    ELSE <<to_opcode(Head(cs).cmd_type)>> \o ParamChars(Head(cs).params) \o ToDString(Tail(cs))

\* \s matches a space and a tab (among others); (\s|,) a comma as well
Tab == "\t"
Whitespace == {" ", Tab}
Separators == Whitespace \cup {","}
\* split_terminator(&[',', ' ']) splits at a comma and at a space only
Terminators == {",", " "}

\* \s* : the first index at or after i that holds no whitespace
RECURSIVE SkipSpaces(_, _)
SkipSpaces(str, i) ==
    IF i <= Len(str) /\ str[i] \in Whitespace THEN SkipSpaces(str, i + 1) ELSE i

\* \d+ : the first index at or after i that holds no digit
RECURSIVE SkipDigits(_, _)
SkipDigits(str, i) ==
    IF i <= Len(str) /\ IsDigit(str[i]) THEN SkipDigits(str, i + 1) ELSE i

\* the group nums, (number (\s|,)?)* from index i: the numbers of its tokens
\* (split at each separator, then parsed) and the index after the match
RECURSIVE MatchNums(_, _, _)
MatchNums(str, i, params) ==
    LET k == SkipDigits(str, i)
    IN  IF k = i THEN [params |-> params, next |-> i]
        ELSE MatchNums(str, IF k <= Len(str) /\ str[k] \in Separators THEN k + 1 ELSE k,
                       Append(params, ParseNum(SubSeq(str, i, k - 1), 0)))

\* the commands FromSvgCommandIter yields for the characters from index i on:
\* each match of PATH_REGEX is an opcode, spaces, and the numbers after them
RECURSIVE FromSvgCommands(_, _)
FromSvgCommands(str, i) ==
    IF i > Len(str) THEN <<>>
    ELSE IF str[i] \notin OpcodeChars THEN FromSvgCommands(str, i + 1)
    ELSE LET m == MatchNums(str, SkipSpaces(str, i + 1), <<>>)
         IN  <<Command(from_opcode(str[i]), m.params)>> \o FromSvgCommands(str, m.next)

\* num.parse::<f64>() fails (iter.rs 246-250) for a token of the match that
\* is not a number: one that holds a separator split_terminator does not
\* split at. The match of nums spans the indices i..(j - 1).
TokenPanics(str, i, j) ==
    \E k \in i..(j - 1) : ~IsDigit(str[k]) /\ str[k] \notin Terminators

\* some match of PATH_REGEX from index i on has such a token
RECURSIVE FromSvgPanics(_, _)
FromSvgPanics(str, i) ==
    IF i > Len(str) THEN FALSE
    ELSE IF str[i] \notin OpcodeChars THEN FromSvgPanics(str, i + 1)
    ELSE LET from == SkipSpaces(str, i + 1)
             m == MatchNums(str, from, <<>>)
         IN  TokenPanics(str, from, m.next) \/ FromSvgPanics(str, m.next)

\* primitives_iter.collect() (parser.rs 221-225) with its outcome: it panics,
\* it returns the primitives, or it never returns. Every primitive but the
\* last ends at a ClosePath that was advanced past, so a collect that
\* returns has drawn at most Len(cs) + 1 primitives: n counts them down, and
\* one more primitive after that shows a decoder that no longer advances.
RECURSIVE CollectOutcome(_, _, _, _)
CollectOutcome(s, cs, n, acc) ==
    LET r == PrimitiveIterNext(s, cs)
    IN  IF r.panic THEN [primitives |-> <<>>, panic |-> TRUE, hangs |-> FALSE]
        ELSE IF r.item = None THEN [primitives |-> acc, panic |-> FALSE, hangs |-> FALSE]
        ELSE IF n = 0 THEN [primitives |-> <<>>, panic |-> FALSE, hangs |-> TRUE]
        ELSE CollectOutcome(r.s, cs, n - 1, acc \o r.item)

\* PrimitiveIter::from_str(path).collect() (parser.rs 221-225)
ParsePath(str) ==
    LET cs == FromSvgCommands(str, 1)
    IN  IF FromSvgPanics(str, 1) THEN [primitives |-> <<>>, panic |-> TRUE, hangs |-> FALSE]
        ELSE CollectOutcome(SvgPointIterFromStr(cs), cs, Len(cs) + 1, <<>>)

(***************************************************************************)
(* The encoder's callers: generate_d drives next() to the end              *)
(* (shapes.rs 339-342); parse_component decodes a path (parser.rs 221-225) *)
(***************************************************************************)
MaxPts == 4
MaxEncCoord == 1
MaxNoneCalls == 2

EncPoints == {Vec2(a, b) : a \in 0..MaxEncCoord, b \in 0..MaxEncCoord}

RECURSIVE EncPointLists(_)
EncPointLists(n) ==
    IF n = 0 THEN {<<>>}
    ELSE EncPointLists(n - 1) \cup
         {Append(t, v) : t \in {u \in EncPointLists(n - 1) : Len(u) = n - 1}, v \in EncPoints}

EncInit ==
    /\ points \in EncPointLists(MaxPts)
    /\ enc = ToSvgCommandIterFromVec
    /\ cmds = <<>>
    /\ none_calls = 0
    /\ d_string = <<>>
    /\ decoded = None

\* one call of ToSvgCommandIter::next
EncNextCall ==
    /\ none_calls < MaxNoneCalls
    /\ LET r == ToSvgCommandIterNext(enc, points)
       IN /\ enc' = r.s
          /\ cmds' = cmds \o r.item
          /\ none_calls' = IF r.item = None THEN none_calls + 1 ELSE none_calls
    /\ UNCHANGED <<points, d_string, decoded>>
    /\ UNCHANGED <<gridVars, geomVars, decVars, compVars, svgVars>>

\* generate_d has collected the characters of the finished command list, and
\* the string is decoded again: PrimitiveIter::from_str(..).collect()
DecodeCmds ==
    /\ enc.closed
    /\ decoded = None
    /\ LET str == ToDString(cmds)
           parsed == FromSvgCommands(str, 1)
       IN /\ d_string' = str
          /\ decoded' = Some(CollectPrimitives(SvgPointIterFromStr(parsed), parsed,
                                               Len(parsed) + 1))
    /\ UNCHANGED <<points, enc, cmds, none_calls>>
    /\ UNCHANGED <<gridVars, geomVars, decVars, compVars, svgVars>>


(***************************************************************************)
(* The decoder's inputs: command lists as the path grammar writes them     *)
(* (M/m/L/l with whole coordinate pairs, V/v/H/h with scalars, Z bare)     *)
(***************************************************************************)
MaxCmds == 3
MaxReps == 2
MaxVal == 1

\* x values and y values are kept apart, so that a mixed-up axis shows
XVals == 1..MaxVal
YVals == {MaxVal + v : v \in 1..MaxVal}
PairVals == {<<a, b>> : a \in XVals, b \in YVals}

\* the concatenations of 1..n elements of S
RECURSIVE Repeats(_, _)
Repeats(S, n) ==
    IF n = 0 THEN {}
    ELSE S \cup {t \o u : t \in Repeats(S, n - 1), u \in S}

Commands ==
    {Command(t, ps) : t \in {"MoveToAbs", "MoveToRel", "LineToAbs", "LineToRel"},
                      ps \in Repeats(PairVals, MaxReps)}
    \cup {Command(t, ps) : t \in {"VertAbs", "VertRel"},
                           ps \in Repeats({<<v>> : v \in YVals}, MaxReps)}
    \cup {Command(t, ps) : t \in {"HorizAbs", "HorizRel"},
                           ps \in Repeats({<<v>> : v \in XVals}, MaxReps)}
    \cup {Command("ClosePath", <<>>)}

RECURSIVE CommandLists(_)
CommandLists(n) ==
    IF n = 0 THEN {<<>>}
    ELSE CommandLists(n - 1) \cup
         {Append(t, c) : t \in {u \in CommandLists(n - 1) : Len(u) = n - 1}, c \in Commands}

DecInit ==
    /\ path = <<>>
    /\ stream \in CommandLists(MaxCmds)
    /\ dec = SvgPointIterFromStr(stream)
    /\ pairs = <<>>
    /\ prims = <<>>
    /\ dec_done = FALSE
    /\ dec_panic = FALSE

\* one call of SvgPointIter::next
SvgPointNextCall ==
    /\ ~dec_done /\ ~dec_panic
    /\ LET r == SvgPointIterNext(dec, stream)
       IN /\ dec' = r.s
          /\ pairs' = pairs \o r.item
          /\ dec_panic' = r.panic
          /\ dec_done' = (~r.panic /\ r.item = None)
    /\ UNCHANGED <<path, stream, prims>>
    /\ UNCHANGED <<gridVars, geomVars, encVars, compVars, svgVars>>

\* one call of PrimitiveIter::next
PrimitiveNextCall ==
    /\ ~dec_done /\ ~dec_panic
    /\ LET r == PrimitiveIterNext(dec, stream)
       IN /\ dec' = r.s
          /\ pairs' = pairs \o r.taken
          /\ prims' = prims \o r.item
          /\ dec_panic' = r.panic
          /\ dec_done' = (~r.panic /\ r.item = None)
    /\ UNCHANGED <<path, stream>>
    /\ UNCHANGED <<gridVars, geomVars, encVars, compVars, svgVars>>

(***************************************************************************)
(* parse_component (parser.rs 213-255) decodes the d attribute of a path   *)
(* element as it stands. The strings are written with an opcode of either  *)
(* case, a letter that is no opcode, a digit, and the separators.          *)
(***************************************************************************)
MaxPathLen == 5
PathChars == {"M", "z", "X", "1", " ", Tab}
PathStrings == UNION {[1..n -> PathChars] : n \in 0..MaxPathLen}

PathInit ==
    /\ path \in PathStrings
    /\ stream = <<>>
    /\ dec = [idle |-> TRUE]
    /\ pairs = <<>>
    /\ prims = <<>>
    /\ dec_done = FALSE
    /\ dec_panic = FALSE

\* PrimitiveIter::from_str(path).collect()
ParseComponent ==
    /\ ~dec_done /\ ~dec_panic
    /\ LET r == ParsePath(path)
       IN /\ stream' = FromSvgCommands(path, 1)
          /\ prims' = r.primitives
          /\ dec_panic' = r.panic
          /\ dec_done' = (~r.panic /\ ~r.hangs)
    /\ UNCHANGED <<path, dec, pairs>>
    /\ UNCHANGED <<gridVars, geomVars, encVars, compVars, svgVars>>

(***************************************************************************)
(* The decoder on the commands PATH_REGEX (iter.rs 10-12) finds in a text: *)
(* the group nums follows every opcode, z and Z included, so a ClosePath   *)
(* can carry parameters. The calls are counted up to MaxCalls.             *)
(***************************************************************************)
MaxTokenLen == 4
MaxCalls == 4
TokenChars == {"M", "L", "V", "z", "1", " "}
TokenStrings == UNION {[1..n -> TokenChars] : n \in 0..MaxTokenLen}

\* SvgPointIter::from_str(s) (iter.rs 272-284)
TokenInit ==
    /\ path \in TokenStrings
    /\ stream = FromSvgCommands(path, 1)
    /\ dec = SvgPointIterFromStr(stream)
    /\ pairs = <<>>
    /\ prims = <<>>
    /\ dec_done = FALSE
    /\ dec_panic = FALSE

\* one call of SvgPointIter::next on the commands of the text
TokenPointNextCall ==
    /\ Len(pairs) < MaxCalls
    /\ SvgPointNextCall

\* one call of PrimitiveIter::next on the commands of the text
TokenPrimitiveNextCall ==
    /\ Len(pairs) < MaxCalls
    /\ PrimitiveNextCall

(***************************************************************************)
(* Reference semantics of a path, used to judge the decoder: the path      *)
(* grammar's meaning of each command, computed command by command.         *)
(***************************************************************************)
\* how many repetitions command c holds (Z counts as one)
Reps(c) == IF c.cmd_type = "ClosePath" THEN 1 ELSE Len(c.params) \div Arity(c.cmd_type)

\* where each emitted pair comes from: <<command index, repetition>>
RECURSIVE Origins(_, _)
Origins(cs, c) ==
    IF c > Len(cs) THEN <<>>
    ELSE [i \in 1..Reps(cs[c]) |-> <<c, i>>] \o Origins(cs, c + 1)

\* the point of repetition i of command c, from the point cur before it
RefPoint(c, i, cur) ==
    LET t == c.cmd_type
        n == Arity(t)
        a == c.params[n * (i - 1) + 1]
        b == c.params[n * (i - 1) + 2]
    IN  IF t \in {"MoveToAbs", "LineToAbs"} THEN Vec2(a, b)
        ELSE IF t \in {"MoveToRel", "LineToRel"} THEN Vec2(cur.x + a, cur.y + b)
        ELSE IF t = "VertAbs" THEN Vec2(cur.x, a)
        ELSE IF t = "VertRel" THEN Vec2(cur.x, cur.y + a)
        ELSE IF t = "HorizAbs" THEN Vec2(a, cur.y)
        ELSE Vec2(cur.x + a, cur.y)

\* the pairs <<point, is_boundary>> the path cs stands for, from command c and
\* repetition i on; start is the point of the first pair of the latest M/m
RECURSIVE RefRun(_, _, _, _, _)
RefRun(cs, c, i, cur, start) ==
    IF c > Len(cs) THEN <<>>
    ELSE IF cs[c].cmd_type = "ClosePath"
    THEN <<<<start, TRUE>>>> \o RefRun(cs, c + 1, 1, start, start)
    ELSE IF i > Reps(cs[c]) THEN RefRun(cs, c + 1, 1, cur, start)
    ELSE LET pt == RefPoint(cs[c], i, cur)
             st == IF IsMove(cs[c].cmd_type) /\ i = 1 THEN pt ELSE start
         IN  <<<<pt, FALSE>>>> \o RefRun(cs, c, i + 1, pt, st)

RefPairs(cs) == RefRun(cs, 1, 1, Vec2(0, 0), Vec2(0, 0))

\* the absolute opcode of an opcode
AbsType(t) ==
    CASE t \in {"MoveToAbs", "MoveToRel"} -> "MoveToAbs"
      [] t \in {"LineToAbs", "LineToRel"} -> "LineToAbs"
      [] t \in {"VertAbs", "VertRel"}     -> "VertAbs"
      [] t \in {"HorizAbs", "HorizRel"}   -> "HorizAbs"
      [] t = "ClosePath"                  -> "ClosePath"

\* the parameters that write the points pts with the absolute opcode t
RECURSIVE AbsParams(_, _)
AbsParams(t, pts) ==
    IF pts = <<>> THEN <<>>
    ELSE (CASE t \in {"MoveToAbs", "LineToAbs"} -> <<pts[1][1].x, pts[1][1].y>>
            [] t = "VertAbs"  -> <<pts[1][1].y>>
            [] t = "HorizAbs" -> <<pts[1][1].x>>) \o AbsParams(t, Tail(pts))

\* the path cs rewritten with absolute commands only: command c onwards, k
\* pairs of RefPairs(cs) being used up already
RECURSIVE AbsoluteFrom(_, _, _)
AbsoluteFrom(cs, c, k) ==
    IF c > Len(cs) THEN <<>>
    ELSE IF cs[c].cmd_type = "ClosePath"
    THEN <<cs[c]>> \o AbsoluteFrom(cs, c + 1, k + 1)
    ELSE <<Command(AbsType(cs[c].cmd_type),
                   AbsParams(AbsType(cs[c].cmd_type),
                             SubSeq(RefPairs(cs), k + 1, k + Reps(cs[c]))))>>
         \o AbsoluteFrom(cs, c + 1, k + Reps(cs[c]))
AbsoluteOf(cs) == AbsoluteFrom(cs, 1, 0)

\* every pair SvgPointIter yields for cs, at most n of them
RECURSIVE DecodeFrom(_, _, _)
DecodeFrom(s, cs, n) ==
    LET r == SvgPointIterNext(s, cs)
    IN  IF n = 0 \/ r.panic \/ r.item = None THEN <<>>
        ELSE r.item \o DecodeFrom(r.s, cs, n - 1)
DecodeAll(cs) == DecodeFrom(SvgPointIterFromStr(cs), cs, Len(Origins(cs, 1)) + 1)

\* the groups of points between the boundary pairs of ps; the points after
\* the last boundary pair form a group when there are any
RECURSIVE GroupsFrom(_, _, _)
GroupsFrom(ps, k, group) ==
    IF k > Len(ps) THEN (IF group = <<>> THEN <<>> ELSE <<group>>)
    ELSE IF ps[k][2] THEN <<group>> \o GroupsFrom(ps, k + 1, <<>>)
    ELSE GroupsFrom(ps, k + 1, Append(group, ps[k][1]))
Groups(ps) == GroupsFrom(ps, 1, <<>>)

\* every command the encoder emits for pts, at most n of them
RECURSIVE EncodeFrom(_, _, _)
EncodeFrom(s, pts, n) ==
    LET r == ToSvgCommandIterNext(s, pts)
    IN  IF n = 0 \/ r.item = None THEN <<>>
        ELSE r.item \o EncodeFrom(r.s, pts, n - 1)
EncodeAll(pts) == EncodeFrom(ToSvgCommandIterFromVec, pts, Len(pts) + 3)

\* the points an absolute command list stands for, read without the decoder
PointsOf(cs) ==
    LET sel == SelectSeq(RefPairs(cs), LAMBDA pr : ~pr[2])
    IN  [k \in 1..Len(sel) |-> sel[k][1]]

(***************************************************************************)
(* Shapes (shapes.rs 285-420). A ShapePrimitive is its point list, a       *)
(* ShapeComponent is [normal, primitives], a Shape is [components].        *)
(***************************************************************************)
ShapeComponent(n, ps) == [normal |-> n, primitives |-> ps]
Shape(cs) == [components |-> cs]

\* Iterator::flatten
RECURSIVE Flatten(_)
Flatten(ss) == IF Len(ss) = 0 THEN <<>> ELSE Head(ss) \o Flatten(Tail(ss))

\* Polygonal for ShapeComponent (shapes.rs 351-362)
component_points_iter(c) ==
    Flatten([i \in 1..Len(c.primitives) |-> points_iter(c.primitives[i])])
component_lines_iter(c) ==
    Flatten([i \in 1..Len(c.primitives) |-> lines_iter(c.primitives[i])])

\* Polygonal for Shape (shapes.rs 397-407)
shape_points_iter(s) ==
    Flatten([i \in 1..Len(s.components) |-> component_points_iter(s.components[i])])
shape_lines_iter(s) ==
    Flatten([i \in 1..Len(s.components) |-> component_lines_iter(s.components[i])])

\* A &impl Polygonal as the kernel sees it: its points and its lines
Polygonal(pts, lines) == [points |-> pts, lines |-> lines]
PrimitivePolygonal(a) == Polygonal(points_iter(a), lines_iter(a))
ComponentPolygonal(c) == Polygonal(component_points_iter(c), component_lines_iter(c))
ShapePolygonal(s) == Polygonal(shape_points_iter(s), shape_lines_iter(s))

\* contains and obscures (shapes.rs 244-283) for any Polygonal
PolygonalContains(o, p) ==
    IF Len(o.points) = 0 THEN FALSE
    ELSE ContainsFrom(o.lines, 1, p, Vec2(1, 0), 0, o.points[Len(o.points)])

RECURSIVE PolygonalObscuresFrom(_, _, _)
PolygonalObscuresFrom(o, pts, i) ==
    IF i > Len(pts) THEN TRUE
    ELSE IF ~PolygonalContains(o, pts[i]) THEN FALSE
    ELSE PolygonalObscuresFrom(o, pts, i + 1)

PolygonalObscures(o, pts) == PolygonalObscuresFrom(o, pts, 1)

\* left, right, top, bottom (shapes.rs 289-300); reduce(..).unwrap() panics
\* on an empty point list
LeastOf(vs) == CHOOSE v \in vs : \A w \in vs : v <= w
GreatestOf(vs) == CHOOSE v \in vs : \A w \in vs : v >= w
left(pts) == LeastOf({pts[i].x : i \in DOMAIN pts})
right(pts) == GreatestOf({pts[i].x : i \in DOMAIN pts})
top(pts) == LeastOf({pts[i].y : i \in DOMAIN pts})
bottom(pts) == GreatestOf({pts[i].y : i \in DOMAIN pts})
BoundsPanic(pts) == Len(pts) = 0

\* width, height, centre (shapes.rs 304-312). The coordinates are even
\* integers, so the halving is exact.
width(pts) == right(pts) - left(pts)
height(pts) == bottom(pts) - top(pts)
centre(pts) == Vec2((left(pts) + right(pts)) \div 2, (top(pts) + bottom(pts)) \div 2)

VAdd(a, b) == Vec2(a.x + b.x, a.y + b.y)
VScale(a, k) == Vec2(a.x * k, a.y * k)

\* shift (shapes.rs 301-303) through points_iter_mut: every point of every
\* primitive of every component
ShiftPrimitive(a, offset) == [i \in 1..Len(a) |-> VAdd(a[i], offset)]
ShiftComponent(c, offset) ==
    ShapeComponent(c.normal,
        [i \in 1..Len(c.primitives) |-> ShiftPrimitive(c.primitives[i], offset)])
shift(s, offset) ==
    Shape([i \in 1..Len(s.components) |-> ShiftComponent(s.components[i], offset)])

\* move_to (shapes.rs 313-315)
move_to(s, point) == shift(s, VSub(point, centre(shape_points_iter(s))))

(***************************************************************************)
(* OptObscurable (shapes.rs 422-544) with any Polygonal as other           *)
(***************************************************************************)
\* filter(is_some).map(unwrap)
Unwrapped(opts) ==
    LET somes == SelectSeq(opts, LAMBDA e : e # None)
    IN  [i \in 1..Len(somes) |-> somes[i][1]]

\* Option<ShapePrimitive> (shapes.rs 516-529)
OptPrimitiveDelIfObscuredBy(self, other) ==
    IF self = None THEN self
    ELSE IF PolygonalObscures(other, points_iter(self[1])) THEN None
    ELSE Some(self[1])

\* Option<ShapeComponent>, were each obscured primitive removed from the
\* vector while the loop runs through it by index
RECURSIVE RemoveWhileIterating(_, _, _)
RemoveWhileIterating(ps, i, other) ==
    IF i > Len(ps) THEN ps
    ELSE IF OptPrimitiveDelIfObscuredBy(Some(ps[i]), other) = None
    THEN RemoveWhileIterating(SubSeq(ps, 1, i - 1) \o SubSeq(ps, i + 1, Len(ps)), i + 1, other)
    ELSE RemoveWhileIterating(ps, i + 1, other)
OptComponentRemovesWhileIterating(self, other) ==
    IF self = None THEN None
    ELSE IF Len(RemoveWhileIterating(self[1].primitives, 1, other)) = 0 THEN None
    ELSE Some(ShapeComponent(self[1].normal,
                             RemoveWhileIterating(self[1].primitives, 1, other)))

\* Option<ShapeComponent>, were a component without primitives kept
OptComponentKeepsEmpty(self, other) ==
    IF self = None THEN None
    ELSE Some(ShapeComponent(self[1].normal,
             Unwrapped([i \in 1..Len(self[1].primitives) |->
                 OptPrimitiveDelIfObscuredBy(Some(self[1].primitives[i]), other)])))

\* Option<ShapeComponent> (shapes.rs 471-492)
OptComponentDelIfObscuredBy(self, other) ==
    IF self = None THEN None
    ELSE
    LET s == self[1]
        new_primitives ==
            Unwrapped([i \in 1..Len(s.primitives) |->
                          OptPrimitiveDelIfObscuredBy(Some(s.primitives[i]), other)])
    IN  IF Len(new_primitives) = 0 THEN None
        ELSE Some(ShapeComponent(s.normal, new_primitives))

\* the components Option<Shape> and Option<&mut Shape> keep
NewComponents(s, other) ==
    Unwrapped([i \in 1..Len(s.components) |->
                  OptComponentDelIfObscuredBy(Some(s.components[i]), other)])

\* Option<Shape> (shapes.rs 426-447)
OptShapeDelIfObscuredBy(self, other) ==
    IF self = None THEN None
    ELSE
    LET new_components == NewComponents(self[1], other)
    IN  IF Len(new_components) = 0 THEN None ELSE Some(Shape(new_components))

\* Option<&mut Shape> (shapes.rs 449-469): s.components is overwritten in
\* place, also when nothing is left; "some" tells whether Some(s) is returned
RefShapeDelIfObscuredBy(s, other) ==
    LET new_components == NewComponents(s, other)
    IN  [shape |-> Shape(new_components), some |-> Len(new_components) # 0]

(***************************************************************************)
(* ShapePrimitive::combine_common_edges (called at lib.rs 160 and          *)
(* shapes/tests.rs 57): the fusion of two faces along their shared run of  *)
(* vertices.                                                               *)
(***************************************************************************)
\* the vertex at cyclic position i, for i > -2 * Len(a)
CycAt(a, i) == a[((i - 1 + 2 * Len(a)) % Len(a)) + 1]

\* twice the signed area; its sign is the sign of the sum of the turning
\* angles of a simple polygon
RECURSIVE SignedArea2From(_, _)
SignedArea2From(a, i) ==
    IF i > Len(a) THEN 0
    ELSE (CycAt(a, i).x * CycAt(a, i + 1).y - CycAt(a, i + 1).x * CycAt(a, i).y)
         + SignedArea2From(a, i + 1)
SignedArea2(a) == SignedArea2From(a, 1)
Winding(a) == Sgn(SignedArea2(a))

\* the number of vertices a[s], a[s+1], ... that equal b[j], b[j+d], ...
RECURSIVE RunLength(_, _, _, _, _, _)
RunLength(a, b, s, j, d, k) ==
    IF k >= Min(Len(a), Len(b)) THEN k
    ELSE IF CycAt(a, s + k) = CycAt(b, j + d * k) THEN RunLength(a, b, s, j, d, k + 1)
    ELSE k

\* the maximal contiguous runs of shared vertices, in either direction of b
SharedRuns(a, b) ==
    {r \in [s : 1..Len(a), j : 1..Len(b), d : {1, -1}, k : 1..Min(Len(a), Len(b))] :
        /\ CycAt(a, r.s) = CycAt(b, r.j)
        /\ r.k = RunLength(a, b, r.s, r.j, r.d, 1)
        /\ \/ r.k = Min(Len(a), Len(b))
           \/ CycAt(a, r.s - 1) # CycAt(b, r.j - r.d)}

\* the run the fusion is made along: the longest, the first in a among equals
RunBefore(r, q) ==
    \/ r.k > q.k
    \/ r.k = q.k /\ r.s < q.s
    \/ r.k = q.k /\ r.s = q.s /\ r.j < q.j
    \/ r.k = q.k /\ r.s = q.s /\ r.j = q.j /\ r.d >= q.d
SharedRun(a, b) ==
    CHOOSE r \in SharedRuns(a, b) : \A q \in SharedRuns(a, b) : RunBefore(r, q)

\* a from the far end of the run round to its start, then b from there along
\* its side off the run: forward when a and b wind the same way, backward
\* when they wind opposite ways
Fuse(a, b, r) ==
    [t \in 1..(Len(a) - r.k + 2) |-> CycAt(a, r.s + r.k - 1 + (t - 1))]
    \o [t \in 1..(Len(b) - r.k) |->
           CycAt(b, r.j + (IF Winding(a) = Winding(b) THEN t ELSE -t))]

combine_common_edges(a, b) ==
    IF Len(a) = 0 \/ Len(b) = 0 \/ SharedRuns(a, b) = {} THEN None
    ELSE Some(Fuse(a, b, SharedRun(a, b)))

\* the faces of the fusion driver: simple polygons with their vertices on
\* the first column and on row MaxFuseRow of the grid, so that a face on the
\* column and a face on the row meet along an edge between the two
MaxFuseVerts == 4
MaxFuseRow == 1
FusePoints == {v \in GridPoints : v.x = 0 \/ v.y = MaxFuseRow}
RECURSIVE FuseLists(_)
FuseLists(n) ==
    IF n = 0 THEN {<<>>}
    ELSE {Append(t, v) : t \in FuseLists(n - 1), v \in FusePoints}
Faces == UNION {{a \in FuseLists(n) : IsSimple(a)} : n \in 3..MaxFuseVerts}

FuseInit ==
    /\ poly \in Faces
    /\ res = [op |-> "idle"]

\* ShapePrimitive::combine_common_edges(&poly, &b)
CallCombine ==
    /\ res.op = "idle"
    /\ \E b \in Faces :
          res' = [op |-> "combine", a |-> poly, b |-> b,
                  val |-> combine_common_edges(poly, b)]
    /\ UNCHANGED poly
    /\ UNCHANGED <<gridVars, encVars, decVars, compVars, svgVars>>

(***************************************************************************)
(* del_if_obscured_by applied twice with one occluder, to a primitive, a   *)
(* component, a shape and a shape behind &mut (shapes.rs 426-529)          *)
(***************************************************************************)
MaxIdemVerts == 2
MaxIdemParts == 2
MaxApplications == 2
\* Vec<T> of at most n elements of set
VecsOf(set, n) == UNION {[1..k -> set] : k \in 0..n}
\* the primitives of the containers: no vertex, or one on the diagonal
DiagonalPrimitives == {<<>>} \cup {<<Vec2(a, a)>> : a \in Coords}
TargetPrimitives == PointLists(MaxIdemVerts)
TargetComponents ==
    {ShapeComponent(Vec3(0, 1, 0), ps) : ps \in VecsOf(DiagonalPrimitives, MaxIdemParts)}
TargetShapes ==
    {Shape(cs) : cs \in VecsOf({ShapeComponent(Vec3(0, 1, 0), ps) :
                                    ps \in VecsOf(DiagonalPrimitives, 1)}, MaxIdemParts)}
Targets ==
    ({"primitive"} \X ({None} \cup {Some(t) : t \in TargetPrimitives}))
    \cup ({"component"} \X ({None} \cup {Some(c) : c \in TargetComponents}))
    \cup ({"shape", "&mut shape"} \X ({None} \cup {Some(sh) : sh \in TargetShapes}))

\* Option<&mut Shape>::del_if_obscured_by: the returned option, holding the
\* shape behind the reference
RefShapeOnce(self, other) ==
    IF self = None THEN None
    ELSE IF RefShapeDelIfObscuredBy(self[1], other).some
    THEN Some(RefShapeDelIfObscuredBy(self[1], other).shape)
    ELSE None

\* x.del_if_obscured_by(&other), by the type of x
DelIfObscuredByAt(level, self, other) ==
    CASE level = "primitive" -> OptPrimitiveDelIfObscuredBy(self, other)
      [] level = "component" -> OptComponentDelIfObscuredBy(self, other)
      [] level = "shape" -> OptShapeDelIfObscuredBy(self, other)
      [] level = "&mut shape" -> RefShapeOnce(self, other)

\* x = x.del_if_obscured_by(&poly): the first call takes a fresh x, the
\* second the result of the first
CallDelAgain ==
    /\ IsSimple(poly)
    /\ \/ res.op = "idle"
       \/ res.op = "del" /\ res.count < MaxApplications
    /\ \E tg \in IF res.op = "idle" THEN Targets ELSE {<<res.level, res.out>>} :
          res' = [op |-> "del", level |-> tg[1],
                  self |-> IF res.op = "idle" THEN tg[2] ELSE res.self,
                  other |-> poly,
                  count |-> IF res.op = "idle" THEN 1 ELSE res.count + 1,
                  before |-> tg[2],
                  out |-> DelIfObscuredByAt(tg[1], tg[2], PrimitivePolygonal(poly))]
    /\ UNCHANGED poly
    /\ UNCHANGED <<gridVars, encVars, decVars, compVars, svgVars>>

(***************************************************************************)
(* The prototype library. The reference cube (tile id 255) is a hexagon of *)
(* three faces around (0, 0); the other prototype (tile id 1) is a cube's  *)
(* top face cut into two triangles, drawn on the sheet a number of cube    *)
(* widths to the right of the cube.                                        *)
(***************************************************************************)
CubeShape ==
    Shape(<<ShapeComponent(Vec3(0, 1, 0),
                <<<<Vec2(0, -4), Vec2(4, -2), Vec2(0, 0), Vec2(-4, -2)>>>>),
            ShapeComponent(Vec3(1, 0, 0),
                <<<<Vec2(0, 0), Vec2(4, -2), Vec2(4, 2), Vec2(0, 4)>>>>),
            ShapeComponent(Vec3(0, 0, 1),
                <<<<Vec2(-4, -2), Vec2(0, 0), Vec2(0, 4), Vec2(-4, 2)>>>>)>>)

TileShape(column) ==
    shift(Shape(<<ShapeComponent(Vec3(0, 1, 0),
                     <<<<Vec2(-4, -2), Vec2(0, -4), Vec2(0, 0)>>,
                       <<Vec2(0, -4), Vec2(4, -2), Vec2(0, 0)>>>>)>>),
          Vec2(8 * column, 0))

\* where on the sheet the tile is drawn: in a scene of several shapes, and
\* in a scene of one shape
MaxColumn == 2
SheetColumns == {1}
SceneColumns == (-MaxColumn)..MaxColumn
\* the tile ids of the library: 0 has no prototype, 1 is the tile
CubeId == 255
TileIds == {0, 1, CubeId}

(***************************************************************************)
(* dimensions_from_cube (lib.rs 292-354)                                   *)
(***************************************************************************)
RECURSIVE DimensionsLoop(_, _, _)
DimensionsLoop(cs, i, acc) ==
    IF i > Len(cs) THEN acc
    ELSE
    LET n == cs[i].normal
        pts == component_points_iter(cs[i])
    IN  DimensionsLoop(cs, i + 1,
            IF n = Vec3(0, 0, 1)
            THEN [acc EXCEPT !.z_x = -width(pts), !.h_b = -height(pts)]
            ELSE IF n = Vec3(0, 1, 0)
            THEN [acc EXCEPT !.h_g = -height(pts)]
            ELSE IF n = Vec3(1, 0, 0)
            THEN [acc EXCEPT !.x_x = width(pts), !.h_r = -height(pts)]
            ELSE acc)

dimensions_from_cube(cube) ==
    LET m == DimensionsLoop(cube.components, 1,
                 [x_x |-> 0, z_x |-> 0, h_r |-> 0, h_g |-> 0, h_b |-> 0])
    IN  [x_vec |-> Vec2(m.x_x, (-m.h_r - m.h_g + m.h_b) \div 2),
         y_vec |-> Vec2(0, (m.h_r - m.h_g + m.h_b) \div 2),
         z_vec |-> Vec2(m.z_x, (m.h_r - m.h_g - m.h_b) \div 2)]

(***************************************************************************)
(* get_objects (lib.rs 179-290)                                            *)
(***************************************************************************)
MaxCompDim == 2
MaxCells == 4
MaxGroups == 2
MaxPlaced == 3

\* f64 %: the remainder has the sign of the dividend
FRem(a, b) == IF a >= 0 THEN a % b ELSE -((-a) % b)
\* Vec2 % Vec2 (vector.rs 119-125)
VRem(a, b) == Vec2(FRem(a.x, b.x), FRem(a.y, b.y))

\* lib.rs 182-185
shape_size(cube) ==
    Vec2(width(shape_points_iter(cube)), height(shape_points_iter(cube)))
centre_reference(cube) == centre(shape_points_iter(cube))

\* lib.rs 193-196
origin(gs, dims) == Vec2(gs.z * (-dims.z_vec.x), gs.y * (-dims.y_vec.y))

\* lib.rs 205
CellCentre(gs, dims, pos) ==
    VAdd(VAdd(VAdd(origin(gs, dims), VScale(dims.x_vec, pos.x)),
              VScale(dims.y_vec, pos.y)),
         VScale(dims.z_vec, pos.z))

\* the offset, were it the plain difference of the two centres
OffsetWithoutWrap(s, cube) == VSub(centre(shape_points_iter(s)), centre_reference(cube))

\* lib.rs 246: (shape.centre() - centre_reference + shape_size / 2.0)
\*              % shape_size - shape_size / 2.0
Offset(s, cube) ==
    LET half == Vec2(shape_size(cube).x \div 2, shape_size(cube).y \div 2)
    IN  VSub(VRem(VAdd(VSub(centre(shape_points_iter(s)), centre_reference(cube)),
                       half),
                  shape_size(cube)),
             half)

\* lib.rs 208-215: the last group that holds the cell
ExistingConnection(conns, pos) ==
    LET matching == {g \in 1..Len(conns) : pos \in conns[g]}
    IN  IF matching = {} THEN None ELSE Some(conns[GreatestOf(matching)])

\* lib.rs 220-230: the first record of the group that still holds a shape
ExistingShape(td, connection) ==
    LET hits == {i \in 1..Len(td) : td[i].pos \in connection /\ td[i].shape # None}
    IN  IF hits = {} THEN None ELSE td[LeastOf(hits)].shape

\* lib.rs 217-237: shape_cell, new_shape and the heap after Rc::new
CloneAliasesPrototype(hp, td, conns, pos, proto) ==
    [cell |-> proto, new_shape |-> TRUE, heap |-> hp]
ShapeCell(hp, td, conns, pos, proto) ==
    LET connection == ExistingConnection(conns, pos)
        found == IF connection = None THEN None ELSE ExistingShape(td, connection[1])
    IN  IF found # None
        THEN [cell |-> found[1], new_shape |-> FALSE, heap |-> hp]
        ELSE [cell |-> Len(hp) + 1, new_shape |-> TRUE, heap |-> Append(hp, hp[proto])]

\* the move, were a reused instance moved to the cell as well
MoveEveryShape(sc, cube, cell_centre) ==
    [sc.heap EXCEPT ![sc.cell] = move_to(@, VAdd(cell_centre, Offset(@, cube)))]
\* lib.rs 242-250
MoveNewShape(sc, cube, cell_centre) ==
    IF sc.new_shape
    THEN [sc.heap EXCEPT ![sc.cell] = move_to(@, VAdd(cell_centre, Offset(@, cube)))]
    ELSE sc.heap

\* lib.rs 258-261: the record holds shape_cell itself
SamePointer(old, cell) == old = cell

\* the sweep, were a record that holds shape_cell itself passed over
RECURSIVE SweepSkipsSamePointer(_, _, _, _)
SweepSkipsSamePointer(td, hp, cell, i) ==
    IF i > Len(td) THEN [to_draw |-> td, heap |-> hp]
    ELSE IF td[i].shape = None \/ td[i].shape = Some(cell)
    THEN SweepSkipsSamePointer(td, hp, cell, i + 1)
    ELSE
    LET r == RefShapeDelIfObscuredBy(hp[td[i].shape[1]], ShapePolygonal(hp[cell]))
    IN  SweepSkipsSamePointer(IF r.some THEN td ELSE [td EXCEPT ![i].shape = None],
                              [hp EXCEPT ![td[i].shape[1]] = r.shape], cell, i + 1)
\* the sweep, were a deleted record taken out of the list
RECURSIVE SweepRemovesRecord(_, _, _, _)
SweepRemovesRecord(td, hp, cell, i) ==
    IF i > Len(td) THEN [to_draw |-> td, heap |-> hp]
    ELSE IF td[i].shape = None THEN SweepRemovesRecord(td, hp, cell, i + 1)
    ELSE IF SamePointer(td[i].shape[1], cell)
    THEN SweepRemovesRecord(SubSeq(td, 1, i - 1) \o SubSeq(td, i + 1, Len(td)), hp, cell, i)
    ELSE
    LET r == RefShapeDelIfObscuredBy(hp[td[i].shape[1]], ShapePolygonal(hp[cell]))
    IN  IF r.some
        THEN SweepRemovesRecord(td, [hp EXCEPT ![td[i].shape[1]] = r.shape], cell, i + 1)
        ELSE SweepRemovesRecord(SubSeq(td, 1, i - 1) \o SubSeq(td, i + 1, Len(td)),
                                [hp EXCEPT ![td[i].shape[1]] = r.shape], cell, i)
\* the sweep, were the first component of the placed shape the occluder
RECURSIVE SweepAgainstFirstComponent(_, _, _, _)
SweepAgainstFirstComponent(td, hp, cell, i) ==
    IF i > Len(td) THEN [to_draw |-> td, heap |-> hp]
    ELSE IF td[i].shape = None THEN SweepAgainstFirstComponent(td, hp, cell, i + 1)
    ELSE IF SamePointer(td[i].shape[1], cell)
    THEN SweepAgainstFirstComponent([td EXCEPT ![i].shape = None], hp, cell, i + 1)
    ELSE
    LET r == RefShapeDelIfObscuredBy(hp[td[i].shape[1]],
                                     ComponentPolygonal(hp[cell].components[1]))
    IN  SweepAgainstFirstComponent(IF r.some THEN td ELSE [td EXCEPT ![i].shape = None],
                                   [hp EXCEPT ![td[i].shape[1]] = r.shape], cell, i + 1)
\* lib.rs 252-273: the sweep from record i on
RECURSIVE Sweep(_, _, _, _)
Sweep(td, hp, cell, i) ==
    IF i > Len(td) THEN [to_draw |-> td, heap |-> hp]
    ELSE IF td[i].shape = None THEN Sweep(td, hp, cell, i + 1)
    ELSE
    LET old == td[i].shape[1]
    IN  IF SamePointer(old, cell)
        THEN Sweep([td EXCEPT ![i].shape = None], hp, cell, i + 1)
        ELSE
        LET r == RefShapeDelIfObscuredBy(hp[old], ShapePolygonal(hp[cell]))
        IN  Sweep(IF r.some THEN td ELSE [td EXCEPT ![i].shape = None],
                  [hp EXCEPT ![old] = r.shape], cell, i + 1)

\* lib.rs 281-286
ResultKeepsDeleted(td, hp) ==
    [i \in 1..Len(td) |-> IF td[i].shape = None THEN Shape(<<>>) ELSE hp[td[i].shape[1]]]
Result(td, hp) ==
    LET living == SelectSeq(td, LAMBDA e : e.shape # None)
    IN  [i \in 1..Len(living) |-> hp[living[i].shape[1]]]

Cells(gs) == {Vec3(a, b, c) : a \in 0..(gs.x - 1), b \in 0..(gs.y - 1), c \in 0..(gs.z - 1)}

GridSizes(cells) ==
    {gs \in {Vec3(a, b, c) : a \in 1..MaxCompDim, b \in 1..MaxCompDim,
                             c \in 1..MaxCompDim} : gs.x * gs.y * gs.z <= cells}

CompInit(sizes, columns) ==
    /\ grid_size \in sizes
    /\ LET it == FirstIter(grid_size, 0, 0)
       IN /\ depth = it.depth /\ x = it.x /\ y = it.y
          /\ gpc = IF it.done THEN "done" ELSE "loop"
    /\ order = <<>>
    /\ underflow = FALSE
    /\ oob = FALSE
    /\ \E column \in columns : heap = <<CubeShape, TileShape(column)>>
    /\ shapes = [id \in TileIds |->
                    IF id = CubeId THEN Some(1) ELSE IF id = 0 THEN None ELSE Some(2)]
    /\ grid = [pos \in Cells(grid_size) |-> None]
    /\ connections = [g \in 1..MaxGroups |-> {}]
    /\ to_draw = <<>>
    /\ placed = <<>>
    /\ objects = None

\* the same cell, were a record without a shape pushed for it
VisitEmptyCellPushesRecord ==
    /\ ReadCell
    /\ \E id \in TileIds :
        /\ shapes[id] = None
        /\ grid' = [grid EXCEPT ![Vec3(x, y, ZOf(depth, x, y))] = Some(id)]
    /\ to_draw' = Append(to_draw, [shape |-> None, pos |-> Vec3(x, y, ZOf(depth, x, y))])
    /\ UNCHANGED <<shapes, heap, connections, placed, objects>>
    /\ UNCHANGED <<geomVars, encVars, decVars, svgVars>>

\* lib.rs 207: grid[x][y][z] holds an id without a prototype
VisitEmptyCell ==
    /\ ReadCell
    /\ \E id \in TileIds :
        /\ shapes[id] = None
        /\ grid' = [grid EXCEPT ![Vec3(x, y, ZOf(depth, x, y))] = Some(id)]
    /\ UNCHANGED <<shapes, heap, connections, to_draw, placed, objects>>
    /\ UNCHANGED <<geomVars, encVars, decVars, svgVars>>

\* lib.rs 207-276: grid[x][y][z] holds an id with a prototype. The cell's
\* id and the groups it belongs to are read here for the first time.
PlaceShape(limit) ==
    /\ ReadCell
    /\ Len(placed) < limit
    /\ \E id \in TileIds, member \in SUBSET (1..MaxGroups) :
        /\ shapes[id] # None
        /\ LET pos == Vec3(x, y, ZOf(depth, x, y))
               conns == [g \in 1..MaxGroups |->
                            IF g \in member THEN connections[g] \cup {pos}
                            ELSE connections[g]]
               cube == heap[shapes[CubeId][1]]
               dims == dimensions_from_cube(cube)
               sc == ShapeCell(heap, to_draw, conns, pos, shapes[id][1])
               moved == MoveNewShape(sc, cube, CellCentre(grid_size, dims, pos))
               swept == Sweep(to_draw, moved, sc.cell, 1)
           IN  /\ grid' = [grid EXCEPT ![pos] = Some(id)]
               /\ connections' = conns
               /\ heap' = swept.heap
               /\ to_draw' = Append(swept.to_draw, [shape |-> Some(sc.cell), pos |-> pos])
               /\ placed' = Append(placed, [pos |-> pos, id |-> id, cell |-> sc.cell,
                                            new_shape |-> sc.new_shape])
    /\ UNCHANGED <<shapes, objects>>
    /\ UNCHANGED <<geomVars, encVars, decVars, svgVars>>

\* lib.rs 281-289: the loops have ended
ReturnObjects ==
    /\ gpc = "done"
    /\ objects = None
    /\ objects' = Some(Result(to_draw, heap))
    /\ UNCHANGED <<shapes, heap, grid, connections, to_draw, placed>>
    /\ UNCHANGED <<gridVars, geomVars, encVars, decVars, svgVars>>

(***************************************************************************)
(* ObjectSvgIter (iter.rs 14-77).  A shape of the input list is the list   *)
(* of its components, a component the pair <<shape index, component        *)
(* index>> that names the path generate_path makes of it (shapes.rs        *)
(* 375-381).  shape_iter and path_iter are the numbers of items taken.     *)
(***************************************************************************)
MaxSvgShapes == 3
MaxSvgComps == 2

StartEvent(name) == [kind |-> "Start", name |-> name]
EndEvent(name) == [kind |-> "End", name |-> name]
\* ShapeComponent::generate_path: Event::Empty of a path tag
PathEvent(component) == [kind |-> "Empty", name |-> "path", of |-> component]

\* add_svg_tags (iter.rs 42-54)
add_svg_tags(s) ==
    [s EXCEPT !.event_stack = Append(Append(@, EndEvent("svg")), StartEvent("svg"))]

\* ObjectSvgIter::from_vec (iter.rs 28-40)
ObjectSvgIterFromVec ==
    add_svg_tags([event_stack |-> <<>>, path_iter |-> None, shape_iter |-> 0])

\* Vec::pop
PopEvent(stack) ==
    IF Len(stack) = 0 THEN [item |-> None, rest |-> stack]
    ELSE [item |-> Some(stack[Len(stack)]), rest |-> SubSeq(stack, 1, Len(stack) - 1)]

\* next(), were the group's end pushed after its start
ObjectSvgIterNextEndOnTop(s, shs) ==
    LET popped == PopEvent(s.event_stack)
        after ==
            IF s.path_iter # None
            THEN IF s.path_iter[1].taken < Len(shs[s.path_iter[1].shape])
                 THEN [s EXCEPT !.event_stack =
                                    Append(popped.rest,
                                           PathEvent(shs[s.path_iter[1].shape][s.path_iter[1].taken + 1])),
                                !.path_iter = Some([shape |-> s.path_iter[1].shape,
                                                    taken |-> s.path_iter[1].taken + 1])]
                 ELSE [s EXCEPT !.event_stack = popped.rest, !.path_iter = None]
            ELSE IF s.shape_iter < Len(shs)
            THEN [s EXCEPT !.shape_iter = @ + 1,
                           !.path_iter = Some([shape |-> s.shape_iter + 1, taken |-> 0]),
                           !.event_stack = Append(Append(popped.rest, StartEvent("g")),
                                                  EndEvent("g"))]
            ELSE [s EXCEPT !.event_stack = popped.rest]
    IN  [s |-> after, result |-> popped.item]

\* Iterator::next (iter.rs 59-76)
ObjectSvgIterNext(s, shs) ==
    LET popped == PopEvent(s.event_stack)
        after ==
            IF s.path_iter # None
            THEN IF s.path_iter[1].taken < Len(shs[s.path_iter[1].shape])
                 THEN [s EXCEPT !.event_stack =
                                    Append(popped.rest,
                                           PathEvent(shs[s.path_iter[1].shape][s.path_iter[1].taken + 1])),
                                !.path_iter = Some([shape |-> s.path_iter[1].shape,
                                                    taken |-> s.path_iter[1].taken + 1])]
                 ELSE [s EXCEPT !.event_stack = popped.rest, !.path_iter = None]
            ELSE IF s.shape_iter < Len(shs)
            THEN [s EXCEPT !.shape_iter = @ + 1,
                           !.path_iter = Some([shape |-> s.shape_iter + 1, taken |-> 0]),
                           !.event_stack = Append(Append(popped.rest, EndEvent("g")),
                                                  StartEvent("g"))]
            ELSE [s EXCEPT !.event_stack = popped.rest]
    IN  [s |-> after, result |-> popped.item]

\* the shape lists: up to MaxSvgShapes shapes of up to MaxSvgComps components
SvgShapeLists ==
    {[i \in 1..Len(counts) |-> [j \in 1..counts[i] |-> <<i, j>>]] :
        counts \in UNION {[1..n -> 0..MaxSvgComps] : n \in 0..MaxSvgShapes}}

SvgInit ==
    /\ svg_shapes \in SvgShapeLists
    /\ svg = ObjectSvgIterFromVec
    /\ events = <<>>

\* the caller's loop: one call of next()
ObjectSvgNextCall ==
    /\ ~("idle" \in DOMAIN svg)
    /\ Cardinality({i \in 1..Len(events) : events[i] = None}) < MaxNoneCalls
    /\ svg' = ObjectSvgIterNext(svg, svg_shapes).s
    /\ events' = Append(events, ObjectSvgIterNext(svg, svg_shapes).result)
    /\ UNCHANGED svg_shapes
    /\ UNCHANGED <<gridVars, geomVars, encVars, decVars, compVars>>

(***************************************************************************)
(* Specifications                                                          *)
(***************************************************************************)
Init == GridInit /\ GeomIdle /\ EncIdle /\ DecIdle /\ CompIdle /\ SvgIdle
Next == SkipCell \/ VisitCell
Spec == Init /\ [][Next]_vars

InitContains == GridIdle /\ GeomInit /\ EncIdle /\ DecIdle /\ CompIdle /\ SvgIdle
NextContains == AddVertex(MaxVerts) \/ CallContains
SpecContains == InitContains /\ [][NextContains]_vars

NextObscures == AddVertex(MaxVerts) \/ CallObscures
SpecObscures == InitContains /\ [][NextObscures]_vars

NextReduce == AddVertex(MaxOccluder) \/ CallDelIfObscuredBy
SpecReduce == InitContains /\ [][NextReduce]_vars

InitEnc == GridIdle /\ GeomIdle /\ EncInit /\ DecIdle /\ CompIdle /\ SvgIdle
NextEnc == EncNextCall \/ DecodeCmds
SpecEnc == InitEnc /\ [][NextEnc]_vars

InitDec == GridIdle /\ GeomIdle /\ EncIdle /\ DecInit /\ CompIdle /\ SvgIdle
NextPoints == SvgPointNextCall
SpecPoints == InitDec /\ [][NextPoints]_vars

NextPrims == PrimitiveNextCall
SpecPrims == InitDec /\ [][NextPrims]_vars

NextDegenerate == AddVertex(2) \/ CallContainsDegenerate \/ CallObscuresDegenerate
SpecDegenerate == InitContains /\ [][NextDegenerate]_vars

NextIdem == AddVertex(MaxOccluder) \/ CallDelAgain
SpecIdem == InitContains /\ [][NextIdem]_vars

InitFuse == GridIdle /\ FuseInit /\ EncIdle /\ DecIdle /\ CompIdle /\ SvgIdle
NextFuse == CallCombine
SpecFuse == InitFuse /\ [][NextFuse]_vars

InitSvg == GridIdle /\ GeomIdle /\ EncIdle /\ DecIdle /\ CompIdle /\ SvgInit
NextSvg == ObjectSvgNextCall
SpecSvg == InitSvg /\ [][NextSvg]_vars

InitPath == GridIdle /\ GeomIdle /\ EncIdle /\ PathInit /\ CompIdle /\ SvgIdle
NextPath == ParseComponent
SpecPath == InitPath /\ [][NextPath]_vars

InitTokens == GridIdle /\ GeomIdle /\ EncIdle /\ TokenInit /\ CompIdle /\ SvgIdle
NextTokens == TokenPointNextCall \/ TokenPrimitiveNextCall
SpecTokens == InitTokens /\ [][NextTokens]_vars

InitComp ==
    CompInit(GridSizes(MaxCells), SheetColumns)
        /\ GeomIdle /\ EncIdle /\ DecIdle /\ SvgIdle
NextComp == SkipCell \/ VisitEmptyCell \/ PlaceShape(MaxPlaced) \/ ReturnObjects
SpecComp == InitComp /\ [][NextComp]_vars

InitScene ==
    CompInit(GridSizes(MaxCompDim * MaxCompDim * MaxCompDim), SceneColumns)
        /\ GeomIdle /\ EncIdle /\ DecIdle /\ SvgIdle
NextScene == SkipCell \/ VisitEmptyCell \/ PlaceShape(1) \/ ReturnObjects
SpecScene == InitScene /\ [][NextScene]_vars

(***************************************************************************)
(* Properties                                                              *)
(***************************************************************************)
\* the traversal's sort key of a cell: depth, then x, then y
KeyLess(c1, c2) ==
    LET d1 == c1.x + c1.y + c1.z
        d2 == c2.x + c2.y + c2.z
    IN  \/ d1 < d2
        \/ d1 = d2 /\ c1.x < c2.x
        \/ d1 = d2 /\ c1.x = c2.x /\ c1.y < c2.y

GridCells ==
    {Vec3(a, b, c) : a \in 0..(grid_size.x - 1), b \in 0..(grid_size.y - 1),
                     c \in 0..(grid_size.z - 1)}

\* C1: the traversal of get_objects indexes only cells of the grid and no index
\* computation underflows; the cells are visited in increasing depth x+y+z and
\* within a depth in increasing x, then increasing y, so none is visited twice;
\* when the loops end every cell of the grid has been visited exactly once; for
\* a (2,2,2) grid (0,0,0) is first, depth-1 cells come before depth-2 cells,
\* and (1,1,1) is last.
C1_TraversalOrder ==
    gpc # "idle" =>
        /\ ~underflow /\ ~oob
        /\ \A i \in 1..Len(order) : order[i] \in GridCells
        /\ \A i, j \in 1..Len(order) : i < j => KeyLess(order[i], order[j])
        /\ gpc = "done" =>
              /\ \A c \in GridCells : Cardinality({i \in 1..Len(order) : order[i] = c}) = 1
              /\ grid_size = Vec3(2, 2, 2) =>
                    /\ order[1] = Vec3(0, 0, 0)
                    /\ order[Len(order)] = Vec3(1, 1, 1)
                    /\ \A i, j \in 1..Len(order) :
                          (/\ order[i].x + order[i].y + order[i].z = 1
                           /\ order[j].x + order[j].y + order[j].z = 2) => i < j

\* C1 witness: the traversal of a (2,2,2) grid has ended with its 8 cells visited
C1_Witness == gpc = "done" /\ grid_size = Vec3(2, 2, 2) /\ Len(order) = 8

\* the point p is inside or on the outline of the simple polygon a
InsideOrOn(a, p) == OnBoundary(a, p) \/ InteriorRef(a, p)

\* C2: del_if_obscured_by(T, O) returns None exactly when every vertex of T is
\* inside or on the boundary of O, and otherwise returns T with the same ordered
\* points; a T with a vertex strictly outside O survives.
C2_DelIfObscuredBy ==
    (res.op = "del_if_obscured_by" /\ res.self # None) =>
        LET T == res.self[1]
            allIn == \A i \in 1..Len(T) : InsideOrOn(res.other, T[i])
        IN  /\ (res.val = None) <=> allIn
            /\ res.val # None => res.val = res.self
            /\ (\E i \in 1..Len(T) : ~InsideOrOn(res.other, T[i])) => res.val = res.self

\* C3: for a simple polygon and a point off its boundary, contains is true
\* exactly when the point is in the interior (even-odd reference), also when the
\* ray towards (1,0) passes through a vertex or runs along a horizontal edge.
C3_ContainsOffBoundary ==
    (res.op = "contains" /\ ~OnBoundary(res.a, res.p)) =>
        (res.val <=> InteriorRef(res.a, res.p))

\* C4: for a simple polygon and a point on one of its edges or vertices,
\* contains is true.
C4_ContainsBoundary ==
    (res.op = "contains" /\ OnBoundary(res.a, res.p)) => res.val

\* C5: obscures(P, Q) is true whenever Q lists the vertices of the simple
\* polygon P from any starting vertex in either direction (Q = P included).
C5_ObscuresReflexive ==
    res.op = "obscures" => res.val

\* C6: for a primitive of at least 3 points, decoding the commands the encoder
\* emitted (written as a path string and read back) gives exactly one
\* primitive, whose points are the input points in order, and encoding that
\* primitive gives the same commands again.
C6_RoundTrip ==
    (decoded # None /\ Len(points) >= 3) =>
        /\ FromSvgCommands(d_string, 1) = cmds
        /\ decoded[1] = <<points>>
        /\ EncodeAll(decoded[1][1]) = cmds

\* C6 witness: a primitive of at least 3 points whose encoding mixes a vertical,
\* a horizontal and a diagonal command has been decoded
C6_Witness ==
    /\ decoded # None /\ Len(points) >= 3
    /\ \E i, j, k \in 1..Len(cmds) :
          /\ cmds[i].cmd_type = "VertAbs"
          /\ cmds[j].cmd_type = "HorizAbs"
          /\ cmds[k].cmd_type = "LineToAbs"

\* C7: the pairs the decoder has emitted are the first pairs of the path's
\* meaning: one point per coordinate pair of M/m/L/l and per scalar of V/v/H/h,
\* absolute commands replacing and relative commands adding to the current
\* point, later pairs of an M/m being line-tos of the same kind; and when the
\* decoder is done, the path rewritten with absolute commands decodes to the
\* same pairs.
C7_PointSemantics ==
    ~DecIdle =>
        /\ ~dec_panic
        /\ Len(pairs) <= Len(RefPairs(stream))
        /\ pairs = SubSeq(RefPairs(stream), 1, Len(pairs))
        /\ dec_done =>
              /\ pairs = RefPairs(stream)
              /\ DecodeAll(AbsoluteOf(stream)) = pairs

\* C7 witness: a path with a relative M of several pairs and a relative V or H,
\* not starting at the origin, has been decoded to the end
C7_Witness ==
    /\ dec_done
    /\ Len(stream) = MaxCmds
    /\ stream[1].cmd_type = "MoveToAbs"
    /\ \E c \in 2..Len(stream) : stream[c].cmd_type = "MoveToRel" /\ Reps(stream[c]) > 1
    /\ \E c \in 2..Len(stream) : stream[c].cmd_type \in {"VertRel", "HorizRel"}
    /\ AbsoluteOf(stream) # stream

\* the number of Z commands of cs
NumClose(cs) == Cardinality({c \in 1..Len(cs) : cs[c].cmd_type = "ClosePath"})

GroupStart(k) ==
    LET B == {j \in 1..(k - 1) : pairs[j][2]}
    IN  IF B = {} THEN 1 ELSE (CHOOSE j \in B : \A i \in B : i <= j) + 1

\* the pairs before pair k that are the first pair of an M/m command
MoveFirsts(k) ==
    {j \in 1..(k - 1) :
        LET o == Origins(stream, 1)[j]
        IN  IsMove(stream[o[1]].cmd_type) /\ o[2] = 1}

C10_EncoderOutput ==
    none_calls >= 1 =>
        /\ PointsOf(cmds) = points
        /\ cmds # <<>>
        /\ \A i \in 1..Len(cmds) : (cmds[i].cmd_type = "ClosePath") <=> (i = Len(cmds))
        /\ \A i \in 1..Len(cmds) :
              cmds[i].cmd_type \in {"MoveToAbs", "LineToAbs", "VertAbs", "HorizAbs", "ClosePath"}
        /\ ToSvgCommandIterNext(enc, points).item = None

(***************************************************************************)
(* The compositor                                                          *)
(***************************************************************************)
\* the step is a placement: a record was pushed
Placing == Len(placed') = Len(placed) + 1
\* the placement just made, and where get_objects puts a fresh copy
Newest(log) == log[Len(log)]
Projected(gs, cube, proto, pos) ==
    move_to(proto, VAdd(CellCentre(gs, dimensions_from_cube(cube), pos),
                        Offset(proto, cube)))
\* the living records, before the placement, of the groups in gs that hold pos
LivingInGroups(td, conns, gs, pos) ==
    {i \in 1..Len(td) : /\ td[i].shape # None
                        /\ \E g \in gs : pos \in conns[g] /\ td[i].pos \in conns[g]}
\* what C11 says of a placement, the groups of the cell being those in gs
ReuseOrCopy(gs) ==
    LET p == Newest(placed')
        earlier == LivingInGroups(to_draw, connections', gs, p.pos)
    IN  IF earlier # {}
        THEN /\ \E i \in earlier : p.cell = to_draw[i].shape[1]
             /\ Len(heap') = Len(heap)
             /\ heap'[p.cell] = heap[p.cell]
        ELSE /\ Len(heap') = Len(heap) + 1
             /\ p.cell = Len(heap')
             /\ heap'[p.cell] = Projected(grid_size, heap[shapes[CubeId][1]],
                                          heap[shapes[p.id][1]], p.pos)

\* C11: a non-empty cell of an equivalence group that has an earlier living
\* record is given that record's very instance (no copy is made, no vertex
\* moves); with no such record it is given a fresh copy of its prototype,
\* translated to the cell's position.
C11_GroupReuse == [][Placing => ReuseOrCopy(1..MaxGroups)]_vars

\* The same with the one group get_objects consults: the last listed one
\* that holds the cell.
LastGroupOf(conns, pos) ==
    IF \E g \in 1..Len(conns) : pos \in conns[g]
    THEN {GreatestOf({g \in 1..Len(conns) : pos \in conns[g]})}
    ELSE {}
LastGroupReuse ==
    [][Placing => ReuseOrCopy(LastGroupOf(connections', Newest(placed').pos))]_vars
\* a placement that reused an instance has happened
ReuseHappened == \E i \in 1..Len(placed) : ~placed[i].new_shape

\* no position is listed in two groups
DisjointGroups ==
    \A g, h \in 1..Len(connections) :
        g # h => connections[g] \cap connections[h] = {}
\* the living records, those of group g, and those of no group
Living == {i \in 1..Len(to_draw) : to_draw[i].shape # None}
LivingOf(g) == {i \in Living : to_draw[i].pos \in connections[g]}
LivingOfNone ==
    {i \in Living : \A g \in 1..Len(connections) : to_draw[i].pos \notin connections[g]}

\* C12: when the groups are pairwise disjoint, at most one record of each
\* group holds a living instance after every cell visit, and the returned
\* list holds at most one shape for each group.
C12_OneLivingPerGroup ==
    DisjointGroups =>
        /\ \A g \in 1..Len(connections) : Cardinality(LivingOf(g)) <= 1
        /\ objects # None =>
               Len(objects[1]) <=
                   Cardinality(LivingOfNone)
                   + Cardinality({g \in 1..Len(connections) : LivingOf(g) # {}})
\* a group was placed twice, its instance reused, and the list was returned
C12_Witness ==
    /\ DisjointGroups
    /\ ReuseHappened
    /\ \E g \in 1..Len(connections) :
           /\ Cardinality({i \in 1..Len(to_draw) : to_draw[i].pos \in connections[g]}) >= 2
           /\ LivingOf(g) # {}
    /\ LivingOfNone # {}
    /\ objects # None

\* the heap addresses of the prototypes
Prototypes == {shapes[id][1] : id \in {i \in DOMAIN shapes : shapes[i] # None}}
\* the set of a shape's vertices
PointSet(s) == {shape_points_iter(s)[i] : i \in 1..Len(shape_points_iter(s))}
\* two placed cells are listed in one group
ShareGroup(p, q) == \E g \in 1..Len(connections) : {p, q} \subseteq connections[g]

\* C13: no step changes the prototype table or a prototype (the reference
\* cube included); instances created from prototypes are allocations of
\* their own, apart from the prototypes and from each other, and a step
\* that translates or trims one instance moves no vertex of another.
C13_PrototypesUntouched ==
    [][/\ shapes' = shapes
       /\ \A a \in Prototypes : heap'[a] = heap[a]
       /\ \A i, j \in 1..Len(placed') :
              (i # j /\ placed'[i].new_shape /\ placed'[j].new_shape) =>
                  /\ placed'[i].cell # placed'[j].cell
                  /\ placed'[i].cell \notin Prototypes
       /\ \A a \in 1..Len(heap) :
              (Placing /\ a # Newest(placed').cell) =>
                  PointSet(heap'[a]) \subseteq PointSet(heap[a])]_vars
\* two instances were created from one prototype for cells that share no
\* group, and one of them has been trimmed while the other is whole
C13_Witness ==
    \E i, j \in 1..Len(placed) :
        /\ i # j /\ placed[i].new_shape /\ placed[j].new_shape
        /\ placed[i].id = placed[j].id
        /\ ~ShareGroup(placed[i].pos, placed[j].pos)
        /\ to_draw[i].shape # None
        /\ Len(shape_points_iter(heap[placed[i].cell]))
             < Len(shape_points_iter(heap[placed[j].cell]))
        /\ Len(shape_points_iter(heap[placed[j].cell]))
             = Len(shape_points_iter(heap[shapes[placed[j].id][1]]))

\* What reducing shape s against the occluder must leave: of every component,
\* in order and under its normal, the primitives the occluder does not
\* enclose, in order; the components left without a primitive dropped.
NotEnclosed(c, occluder) ==
    SelectSeq(c.primitives, LAMBDA pr : ~PolygonalObscures(ShapePolygonal(occluder), pr))
Reduced(s, occluder) ==
    SelectSeq([k \in 1..Len(s.components) |->
                  [normal |-> s.components[k].normal,
                   primitives |-> NotEnclosed(s.components[k], occluder)]],
              LAMBDA c : Len(c.primitives) > 0)
\* a shape with a component, and no component without a primitive
NoEmptyContainer(s) ==
    /\ Len(s.components) > 0
    /\ \A k \in 1..Len(s.components) : Len(s.components[k].primitives) > 0

\* C14: a sweep reduces every living earlier instance other than the placed
\* one to the primitives the placed shape does not enclose, in their order
\* and under their component's normal, without the components left empty,
\* and deletes the record exactly when no component is left; after it no
\* living earlier shape has an empty component or no component.
C14_HierarchicalReduction ==
    [][Placing =>
        \A i \in 1..Len(to_draw) :
            (to_draw[i].shape # None /\ to_draw[i].shape[1] # Newest(placed').cell) =>
                LET a == to_draw[i].shape[1]
                    expected == Reduced(heap[a], heap'[Newest(placed').cell])
                IN  /\ heap'[a].components = expected
                    /\ (to_draw'[i].shape = None) = (Len(expected) = 0)
                    /\ to_draw'[i].shape # None =>
                           /\ to_draw'[i].shape = to_draw[i].shape
                           /\ NoEmptyContainer(heap'[a])]_vars
\* a living shape has lost one primitive of a component that it keeps, and a
\* living shape has lost a whole component
C14_Witness ==
    /\ \E i \in Living :
           LET s == heap[to_draw[i].shape[1]]
               proto == heap[shapes[placed[i].id][1]]
           IN  /\ placed[i].new_shape
               /\ Len(s.components) = Len(proto.components)
               /\ \E k \in 1..Len(s.components) :
                      Len(s.components[k].primitives) < Len(proto.components[k].primitives)
    /\ \E i \in Living :
           /\ placed[i].new_shape
           /\ Len(heap[to_draw[i].shape[1]].components)
                < Len(heap[shapes[placed[i].id][1]].components)

\* C15: the returned list holds the shapes of the records that are living
\* when the loops end, one for each such record, in the records' order; an
\* instance shared by a group stands where its one living record stands.
C15_OutputOrder ==
    objects # None =>
        /\ Len(objects[1]) = Cardinality(Living)
        /\ \A i \in Living :
               objects[1][Cardinality({j \in Living : j <= i})] = heap[to_draw[i].shape[1]]
\* the list was returned from records of which one was deleted by the sweep
\* of a reused instance, ahead of two living ones
C15_Witness ==
    /\ objects # None
    /\ Cardinality(Living) >= 2
    /\ \E i \in 1..Len(to_draw), j \in Living :
           /\ i < j /\ to_draw[i].shape = None
           /\ ~placed[j].new_shape /\ placed[j].cell = placed[i].cell
    /\ \E i, j \in Living : heap[to_draw[i].shape[1]] # heap[to_draw[j].shape[1]]

(***************************************************************************)
(* A scene of one shape                                                    *)
(***************************************************************************)
\* The offset d of a prototype's centre from the cube's, brought into the
\* cube's box of size s: the o that differs from d by a multiple of s with
\* -s/2 <= o < s/2, or, when d lies below -s/2, with -3s/2 < o <= -s/2.
WrapInto(d, s) ==
    IF 2 * d + s >= 0
    THEN CHOOSE o \in (-s)..s : (o - d) % s = 0 /\ -s <= 2 * o /\ 2 * o < s
    ELSE CHOOSE o \in (-2 * s)..0 : (d - o) % s = 0 /\ -3 * s < 2 * o /\ 2 * o <= -s
\* what is said of the one shape of a scene, its centre lying off the cell's
\* projected position; proto is its prototype
OneShapeAt(off(_, _)) ==
    LET p == placed[1]
        proto == heap[shapes[p.id][1]]
        cube == heap[shapes[CubeId][1]]
        dims == dimensions_from_cube(cube)
        d == VSub(centre(shape_points_iter(proto)), centre(shape_points_iter(cube)))
        size == Vec2(width(shape_points_iter(cube)), height(shape_points_iter(cube)))
        at == VAdd(VAdd(VAdd(Vec2(grid_size.z * (-dims.z_vec.x), grid_size.y * (-dims.y_vec.y)),
                             VScale(dims.x_vec, p.pos.x)),
                        VScale(dims.y_vec, p.pos.y)),
                   VScale(dims.z_vec, p.pos.z))
        out == objects[1]
    IN  /\ Len(out) = 1
        /\ Len(out[1].components) = Len(proto.components)
        /\ \A k \in 1..Len(proto.components) :
               /\ out[1].components[k].normal = proto.components[k].normal
               /\ Len(out[1].components[k].primitives) = Len(proto.components[k].primitives)
        /\ out[1] = shift(proto, VSub(centre(shape_points_iter(out[1])),
                                      centre(shape_points_iter(proto))))
        /\ centre(shape_points_iter(out[1])) = VAdd(at, Vec2(off(d.x, size.x), off(d.y, size.y)))
        /\ p.id = CubeId => centre(shape_points_iter(out[1])) = at
Plain(d, s) == d
SceneOfOne == objects # None /\ Len(placed) = 1

\* C16 as stated: the one shape of a scene with one non-empty cell is its
\* prototype under one translation, its bounding box's centre at origin +
\* x*x_vec + y*y_vec + z*z_vec plus the prototype's offset from the cube's
\* centre (zero for the cube).
C16_OneShapePlainOffset == SceneOfOne => OneShapeAt(Plain)
\* C16, amended: the offset is first brought into the cube's box.
C16_OneShapeWrappedOffset == SceneOfOne => OneShapeAt(WrapInto)
\* a scene of one tile, drawn on the sheet beside the cube, in a cell other
\* than (0, 0, 0)
C16_Witness ==
    /\ SceneOfOne
    /\ placed[1].id # CubeId
    /\ placed[1].pos.x + placed[1].pos.y + placed[1].pos.z >= 2
    /\ centre(shape_points_iter(heap[shapes[placed[1].id][1]])).x
         - centre(shape_points_iter(heap[shapes[CubeId][1]])).x >= 8

(***************************************************************************)
(* Cells without a prototype                                               *)
(***************************************************************************)
\* the step ran the loop body for a cell whose tile id has no prototype
EmptyCellRead ==
    /\ Len(order') = Len(order) + 1
    /\ grid'[Newest(order')] # None
    /\ shapes[grid'[Newest(order')][1]] = None
\* the places in the visiting order of the cells that were given a shape
PlacedAt == {k \in 1..Len(order) : \E i \in 1..Len(placed) : placed[i].pos = order[k]}

\* C17: a cell whose tile id has no prototype is passed over as empty:
\* nothing fails, no record is pushed, no shape, group or record changes,
\* and the loops go on with the next cell.
C17_MissingPrototype ==
    [][EmptyCellRead =>
        /\ UNCHANGED <<shapes, heap, connections, to_draw, placed, objects>>
        /\ UNCHANGED <<underflow, oob>>
        /\ LET it == NextIter(grid_size, depth, x, y)
           IN  /\ <<depth', x', y'>> = <<it.depth, it.x, it.y>>
               /\ gpc' = IF it.done THEN "done" ELSE "loop"]_vars
\* a cell without a prototype was read between two cells that were given
\* shapes, and the list was returned
C17_Witness ==
    /\ objects # None
    /\ \E k \in 1..Len(order) :
           /\ grid[order[k]] # None /\ shapes[grid[order[k]][1]] = None
           /\ \E a, b \in PlacedAt : a < k /\ k < b

(***************************************************************************)
(* Malformed paths                                                         *)
(***************************************************************************)
\* the path holds a letter that is no opcode: an unknown opcode where a
\* command is expected, a non-numeric token where a number is
Malformed(str) == \E k \in 1..Len(str) : str[k] = "X"

\* C18: decoding a path that holds an unknown opcode letter or a non-numeric
\* token ends in an error and yields no primitive; no part of the text is
\* passed over.
C18_MalformedPathFails ==
    (Malformed(path) /\ (dec_done \/ dec_panic)) => (dec_panic /\ prims = <<>>)

(***************************************************************************)
(* Polygons of fewer than three vertices                                   *)
(***************************************************************************)
\* C19: contains and obscures, handed a polygon of fewer than three vertices
\* as the occluder or as the target, fail; they never return an answer.
C19_DegenerateFails ==
    /\ (res.op = "contains" /\ Len(res.a) < 3) => res.val \notin BOOLEAN
    /\ (res.op = "obscures" /\ (Len(res.a) < 3 \/ Len(res.b) < 3)) => res.val \notin BOOLEAN

(***************************************************************************)
(* Reducing twice                                                          *)
(***************************************************************************)
\* C20: with the occluder fixed, del_if_obscured_by applied to its own
\* result gives that result again, for a primitive, a component, a shape
\* and None; what is None after one application stays None.
C20_Idempotent ==
    res.op = "del" =>
        /\ res.count > 1 => res.out = res.before
        /\ res.before = None => res.out = None
\* a shape that lost one of its two components to the occluder was reduced
\* again
C20_Witness ==
    /\ res.op = "del" /\ res.count > 1
    /\ res.level \in {"shape", "&mut shape"}
    /\ res.self # None /\ res.out # None
    /\ Len(res.self[1].components) = 2
    /\ Len(res.out[1].components) = 1

(***************************************************************************)
(* Fusion of two faces                                                     *)
(***************************************************************************)
VerticesOf(a) == {a[i] : i \in 1..Len(a)}
\* the vertices of the run r of a, and its edges
RunVertices(a, r) == {CycAt(a, r.s + t) : t \in 0..(r.k - 1)}
RunEdges(a, r) == {{CycAt(a, r.s + t), CycAt(a, r.s + t + 1)} : t \in 0..(r.k - 2)}
\* the edges of the outline c that are not edges of the run
OffRunEdges(c, a, r) ==
    {lines_iter(c)[i] : i \in {n \in 1..Len(c) :
        {lines_iter(c)[n][1], lines_iter(c)[n][2]} \notin RunEdges(a, r)}}
\* an edge of one face and an edge of the other have at most a common end
\* point in common
EdgesApart(e, f) ==
    IF {e[1], e[2]} = {f[1], f[2]} THEN FALSE
    ELSE IF e[1] = f[1] THEN ~OnSegment(e[1], e[2], f[2]) /\ ~OnSegment(f[1], f[2], e[2])
    ELSE IF e[1] = f[2] THEN ~OnSegment(e[1], e[2], f[1]) /\ ~OnSegment(f[1], f[2], e[2])
    ELSE IF e[2] = f[1] THEN ~OnSegment(e[1], e[2], f[2]) /\ ~OnSegment(f[1], f[2], e[1])
    ELSE IF e[2] = f[2] THEN ~OnSegment(e[1], e[2], f[1]) /\ ~OnSegment(f[1], f[2], e[1])
    ELSE ~SegmentsMeet(e[1], e[2], f[1], f[2])
\* a and b are two faces side by side: their common vertices are one run of
\* at least one edge, their outlines have nothing else in common, and they
\* lie on different sides of the run
SideBySide(a, b) ==
    /\ SharedRuns(a, b) # {}
    /\ LET r == SharedRun(a, b)
       IN  /\ r.k >= 2
           /\ VerticesOf(a) \cap VerticesOf(b) = RunVertices(a, r)
           /\ Cardinality(RunVertices(a, r)) = r.k
           /\ \A e \in OffRunEdges(a, a, r), f \in OffRunEdges(b, a, r) : EdgesApart(e, f)
           /\ r.d = (IF Winding(a) = Winding(b) THEN -1 ELSE 1)
Abs(n) == IF n < 0 THEN -n ELSE n
\* c is the outline of the union of the faces a and b that share the run r
UnionOutline(c, a, b, r) ==
    /\ IsSimple(c)
    /\ Len(c) = Len(a) + Len(b) - 2 * r.k + 2
    /\ VerticesOf(c) = ((VerticesOf(a) \cup VerticesOf(b)) \ RunVertices(a, r))
                          \cup {CycAt(a, r.s), CycAt(a, r.s + r.k - 1)}
    /\ Abs(SignedArea2(c)) = Abs(SignedArea2(a)) + Abs(SignedArea2(b))
    /\ \A v \in VerticesOf(a) \cup VerticesOf(b) : InsideOrOn(c, v)

\* the fused outline of two faces side by side is the outline of their
\* union, judged by exact integer geometry
FusedOutlineOfUnion ==
    (res.op = "combine" /\ SideBySide(res.a, res.b)) =>
        /\ res.val # None
        /\ UnionOutline(res.val[1], res.a, res.b, SharedRun(res.a, res.b))

\* C21: for two simple polygons side by side along a shared run of vertices
\* (listed in the same or in opposite winding directions)
\* combine_common_edges returns the outline of their union: the part of a
\* off the run joined to the part of b off the run at the two ends of the
\* run, which encloses and is enclosed by every other listing of that
\* outline; for polygons without a common vertex it returns None.
C21_FusedOutline ==
    res.op = "combine" =>
        /\ VerticesOf(res.a) \cap VerticesOf(res.b) = {} => res.val = None
        /\ SideBySide(res.a, res.b) =>
              /\ res.val # None
              /\ UnionOutline(res.val[1], res.a, res.b, SharedRun(res.a, res.b))
              /\ \A e \in Variants(res.val[1]) :
                    obscures(res.val[1], e) /\ obscures(e, res.val[1])

(***************************************************************************)
(* The event sequence of ObjectSvgIter                                     *)
(***************************************************************************)
\* the events of the shapes from shape i on
RECURSIVE GroupEvents(_, _)
GroupEvents(shs, i) ==
    IF i > Len(shs) THEN <<>>
    ELSE <<StartEvent("g")>> \o [j \in 1..Len(shs[i]) |-> PathEvent(shs[i][j])]
         \o <<EndEvent("g")>> \o GroupEvents(shs, i + 1)
DocumentEvents(shs) == <<StartEvent("svg")>> \o GroupEvents(shs, 1) \o <<EndEvent("svg")>>

\* C22: for every list of shapes, the calls of next() return Start(svg),
\* then for each shape in order Start(g), one path per component in
\* component order and End(g), then End(svg), and None on every later call.
C22_EventSequence ==
    \A i \in 1..Len(events) :
        events[i] = IF i <= Len(DocumentEvents(svg_shapes))
                    THEN Some(DocumentEvents(svg_shapes)[i])
                    ELSE None
\* a list with a shape without components and a shape of several was
\* written out to the end, and next() was called again
C22_Witness ==
    /\ \E i \in 1..Len(svg_shapes) : Len(svg_shapes[i]) = 0
    /\ \E i \in 1..Len(svg_shapes) : Len(svg_shapes[i]) > 1
    /\ Len(events) > Len(DocumentEvents(svg_shapes)) + 1
    /\ events[Len(events)] = None

(***************************************************************************)
(* The ray direction of contains                                           *)
(***************************************************************************)
\* the edge a[i] -> a[i+1] has no intersection parameters with the ray from
\* p in direction (1,0)
UndefinedFor(a, i, p) ==
    LET ip == intersection_parameters(lines_iter(a)[i][1],
                                      VSub(lines_iter(a)[i][2], lines_iter(a)[i][1]),
                                      p, Vec2(1, 0))
    IN  IsNaN(ip.lambda) \/ IsNaN(ip.mu)
\* the loop of contains with the ray in direction (0,1) from the first edge on
CastUpwards(a, p) == ContainsFrom(lines_iter(a), 1, p, Vec2(0, 1), 0, a[Len(a)])

\* C23: when some edge has undefined intersection parameters for the ray
\* direction (1,0), contains returns what the ray in direction (0,1), cast
\* from the first edge on, gives; for a point off the boundary that is the
\* classification of the even-odd reference; and the result is the same
\* wherever the parallel edge stands in the vertex order.
C23_GlobalFallback ==
    (res.op = "contains" /\ \E i \in 1..Len(res.a) : UndefinedFor(res.a, i, res.p)) =>
        /\ res.val = CastUpwards(res.a, res.p)
        /\ ~OnBoundary(res.a, res.p) => (res.val <=> InteriorRef(res.a, res.p))
        /\ \A k \in 1..Len(res.a) : contains(Rotate(res.a, k), res.p) = res.val

(***************************************************************************)
(* The occlusion sweep                                                     *)
(***************************************************************************)
\* the primitives of shape s, component after component
PrimitivesOf(s) == Flatten([k \in 1..Len(s.components) |-> s.components[k].primitives])
\* all edges of all primitives of all components of occluder, taken
\* together, have every vertex of pr inside or on them (kernel's contains)
CoveredBy(pr, occluder) ==
    \A n \in 1..Len(pr) : PolygonalContains(ShapePolygonal(occluder), pr[n])
Uncovered(s, occluder) == SelectSeq(PrimitivesOf(s), LAMBDA pr : ~CoveredBy(pr, occluder))

\* C24: when an instance is placed (fresh or reused), every earlier living
\* record of another instance keeps exactly the primitives that the placed
\* instance's complete shape does not cover, and is deleted exactly when none
\* is left; dead records stay dead, and the placed instance itself is not
\* reduced in that step: a reused one is unchanged, a fresh one has all the
\* primitives of its prototype, and its record is living.
C24_OcclusionSweep ==
    [][Placing =>
        LET new == Newest(placed')
        IN  /\ \A i \in 1..Len(to_draw) :
                   IF to_draw[i].shape = None THEN to_draw'[i].shape = None
                   ELSE to_draw[i].shape[1] # new.cell =>
                       LET a == to_draw[i].shape[1]
                           kept == Uncovered(heap[a], heap'[new.cell])
                       IN  /\ PrimitivesOf(heap'[a]) = kept
                           /\ to_draw'[i].shape = IF Len(kept) = 0 THEN None ELSE Some(a)
            /\ to_draw'[Len(to_draw')].shape = Some(new.cell)
            /\ IF new.new_shape
               THEN Len(PrimitivesOf(heap'[new.cell]))
                        = Len(PrimitivesOf(heap[shapes[new.id][1]]))
               ELSE heap'[new.cell] = heap[new.cell]]_vars
\* a reused instance was placed while a living record of another instance
\* stood before it, and a record has been reduced to a part of its shape
C24_Witness ==
    /\ \E n \in 1..Len(placed) :
           /\ ~placed[n].new_shape
           /\ \E i \in 1..(n - 1) : to_draw[i].shape # None
    /\ \E i \in Living :
           /\ placed[i].new_shape
           /\ Len(PrimitivesOf(heap[to_draw[i].shape[1]]))
                < Len(PrimitivesOf(heap[shapes[placed[i].id][1]]))

(***************************************************************************)
(* The encoder's commands, one by one                                      *)
(***************************************************************************)
\* two points share their x or their y coordinate
AxisAligned(p, q) == p.x = q.x \/ p.y = q.y
\* the number of points the MoveAbs takes: up to the first point that is
\* axis-aligned with the point after it, or all of them
MoveRun(pts) ==
    IF \E k \in 1..(Len(pts) - 1) : AxisAligned(pts[k], pts[k + 1])
    THEN LeastOf({k \in 1..(Len(pts) - 1) : AxisAligned(pts[k], pts[k + 1])})
    ELSE Len(pts)
\* x and y of each point, in order
Coordinates(pts) == Flatten([k \in 1..Len(pts) |-> <<pts[k].x, pts[k].y>>])
\* the number of points command c stands for
PointCount(c) ==
    CASE c.cmd_type \in {"MoveToAbs", "LineToAbs"} -> Len(c.params) \div 2
      [] c.cmd_type \in {"VertAbs", "HorizAbs"} -> Len(c.params)
      [] OTHER -> 0
\* the index in the input of the first point of command i
RECURSIVE FirstPointOf(_, _)
FirstPointOf(cs, i) == IF i = 1 THEN 1 ELSE FirstPointOf(cs, i - 1) + PointCount(cs[i - 1])

\* the MoveAbs of a non-empty input
MoveFirst ==
    /\ cmds[1].cmd_type = "MoveToAbs"
    /\ \A i \in 2..Len(cmds) : cmds[i].cmd_type # "MoveToAbs"
    /\ cmds[1].params = Coordinates(SubSeq(points, 1, MoveRun(points)))
    /\ Len(cmds) > 1 /\ PointCount(cmds[2]) > 0 =>
           cmds[2].params[1] \in {points[MoveRun(points) + 1].x, points[MoveRun(points) + 1].y}

\* C25: for every input point sequence, of any length, the first command the
\* encoder emits is MoveAbs and no later command is; its parameters are the
\* points up to the first one that is axis-aligned with its successor (all
\* points if there is none), and the following command starts with the
\* point after that one.
C25_MoveFirst == cmds # <<>> => MoveFirst
\* the same for the inputs that have a first point
MoveFirstOfNonEmpty == (cmds # <<>> /\ points # <<>>) => MoveFirst
\* a MoveAbs of several points was followed by another command
MoveRunStopped ==
    /\ Len(cmds) > 1 /\ cmds[1].cmd_type = "MoveToAbs" /\ Len(cmds[1].params) > 2
    /\ MoveRun(points) < Len(points)

\* the alignment class of point q with its predecessor p, as the encoder
\* names it
ClassOf(p, q) ==
    IF q.x = p.x THEN "VertAbs" ELSE IF q.y = p.y THEN "HorizAbs" ELSE "LineToAbs"
\* q continues a run of class t after p
Continues(t, p, q) ==
    CASE t = "VertAbs" -> q.x = p.x
      [] t = "HorizAbs" -> q.y = p.y
      [] t = "LineToAbs" -> ~AxisAligned(p, q)
      [] OTHER -> FALSE
\* what C26 says of command i, a command with points after the MoveAbs
RunOfOneClass(i) ==
    LET st == FirstPointOf(cmds, i)
        n == PointCount(cmds[i])
    IN  /\ cmds[i].cmd_type = ClassOf(points[st - 1], points[st])
        /\ \A j \in st..(st + n - 1) : Continues(cmds[i].cmd_type, points[j - 1], points[j])
        /\ st + n <= Len(points) =>
               ~Continues(cmds[i].cmd_type, points[st + n - 1], points[st + n])

\* C26: every command after the MoveAbs is VertAbs when its first point has
\* the x of the preceding point, otherwise HorizAbs when it has its y,
\* otherwise LineAbs; every point of its run continues that class with
\* respect to its predecessor (no point of a LineAbs run shares a coordinate
\* with its predecessor), and the run stops at the first point that does not.
C26_RunsOfOneClass ==
    (cmds # <<>> /\ cmds[1].cmd_type = "MoveToAbs") =>
        \A i \in 2..Len(cmds) : PointCount(cmds[i]) > 0 => RunOfOneClass(i)
\* the same for the VertAbs and HorizAbs commands alone
AxisRunsOfOneClass ==
    (cmds # <<>> /\ cmds[1].cmd_type = "MoveToAbs") =>
        \A i \in 2..Len(cmds) :
            cmds[i].cmd_type \in {"VertAbs", "HorizAbs"} => RunOfOneClass(i)

(***************************************************************************)
(* The placement list                                                      *)
(***************************************************************************)
\* the step ran the loop body for a cell whose tile id has a prototype
FilledCellRead ==
    /\ Len(order') = Len(order) + 1
    /\ grid'[Newest(order')] # None
    /\ shapes[grid'[Newest(order')][1]] # None

\* C27: the placement list is append-only: a visit of a cell with a
\* registered prototype appends one record, of that cell and holding an
\* instance, at the end (for a fresh and for a reused instance alike), no
\* other step changes the length; no record is removed or moves, no
\* record's coordinate changes, a record holds the instance it was pushed with
\* or None, and a record that is None stays None.
C27_AppendOnly ==
    [][/\ IF FilledCellRead
          THEN /\ Len(to_draw') = Len(to_draw) + 1
               /\ Newest(to_draw').pos = Newest(order')
               /\ Newest(to_draw').shape # None
          ELSE Len(to_draw') = Len(to_draw)
       /\ \A i \in 1..Len(to_draw) :
             /\ to_draw'[i].pos = to_draw[i].pos
             /\ to_draw'[i].shape \in {to_draw[i].shape, None}]_vars
\* three records, the last of them pushed for a reused instance, one of the
\* earlier ones deleted and one living
C27_Witness ==
    /\ Len(to_draw) = MaxPlaced
    /\ ~placed[Len(placed)].new_shape
    /\ \E i \in 1..(Len(to_draw) - 1) : to_draw[i].shape = None
    /\ \E i \in 1..(Len(to_draw) - 1) : to_draw[i].shape # None

(***************************************************************************)
(* One living record for each living instance                              *)
(***************************************************************************)
\* the records of the list td that hold the instance at address a
HoldersOf(td, a) == {i \in 1..Len(td) : td[i].shape = Some(a)}

\* C28: after every cell visit each living instance is held by exactly one
\* living record; a reused instance is taken from every earlier record that
\* held it and lives on in the newly appended record only; the newest
\* record is always living; so no instance comes twice in the output, and
\* the output is not empty once a cell with a prototype was visited.
C28_OneRecordPerInstance ==
    [][/\ \A a \in 1..Len(heap') : Cardinality(HoldersOf(to_draw', a)) <= 1
       /\ to_draw' # <<>> => Newest(to_draw').shape # None
       /\ Placing =>
             /\ \A i \in HoldersOf(to_draw, Newest(placed').cell) : to_draw'[i].shape = None
             /\ HoldersOf(to_draw', Newest(placed').cell) = {Len(to_draw')}
       /\ objects' # None =>
             /\ Len(objects'[1]) = Cardinality({a \in 1..Len(heap') : HoldersOf(to_draw', a) # {}})
             /\ placed' # <<>> => Len(objects'[1]) > 0]_vars
\* an instance was reused while its earlier record was living; that record
\* is now None, and the list was returned
C28_Witness ==
    /\ objects # None
    /\ \E n \in 2..Len(placed) :
           /\ ~placed[n].new_shape
           /\ to_draw[n].shape = Some(placed[n].cell)
           /\ \E i \in 1..(n - 1) : placed[i].cell = placed[n].cell /\ to_draw[i].shape = None

(***************************************************************************)
(* An instance after its placement                                         *)
(***************************************************************************)
\* the list t is the list s with some of its elements taken out
RECURSIVE IsSubSeqFrom(_, _, _, _)
IsSubSeqFrom(t, s, j, i) ==
    IF j > Len(t) THEN TRUE
    ELSE IF i > Len(s) THEN FALSE
    ELSE IF t[j] = s[i] THEN IsSubSeqFrom(t, s, j + 1, i + 1)
    ELSE IsSubSeqFrom(t, s, j, i + 1)
IsSubSeq(t, s) == IsSubSeqFrom(t, s, 1, 1)
\* the components tc are components of sc, in order, under their normals,
\* each with some of its primitives taken out
RECURSIVE ComponentsShrunkFrom(_, _, _, _)
ComponentsShrunkFrom(tc, sc, j, i) ==
    IF j > Len(tc) THEN TRUE
    ELSE IF i > Len(sc) THEN FALSE
    ELSE IF tc[j].normal = sc[i].normal /\ IsSubSeq(tc[j].primitives, sc[i].primitives)
    THEN ComponentsShrunkFrom(tc, sc, j + 1, i + 1)
    ELSE ComponentsShrunkFrom(tc, sc, j, i + 1)
OnlyShrunk(t, s) == ComponentsShrunkFrom(t.components, s.components, 1, 1)
\* the shape the n-th placement made of its prototype
AsPlaced(log, n) ==
    Projected(grid_size, heap[shapes[CubeId][1]], heap[shapes[log[n].id][1]], log[n].pos)

\* C29: no step changes an instance that exists other than by taking whole
\* primitives (and the components left empty) out of it: no vertex moves,
\* nothing is added; and every primitive of a returned shape has the point
\* list it had when its instance was placed.
C29_InstancesOnlyShrink ==
    [][/\ \A a \in 1..Len(heap) : OnlyShrunk(heap'[a], heap[a])
       /\ objects' # None =>
             \A n \in 1..Len(placed') :
                 placed'[n].new_shape =>
                     IsSubSeq(PrimitivesOf(heap'[placed'[n].cell]),
                              PrimitivesOf(AsPlaced(placed', n)))]_vars
\* an instance that was reused for a second cell and has lost a primitive
\* since its placement is in the returned list
C29_Witness ==
    /\ objects # None
    /\ \E n \in 1..Len(placed) : \E k \in (n + 1)..Len(placed) :
           /\ placed[n].new_shape /\ ~placed[k].new_shape
           /\ placed[k].cell = placed[n].cell
           /\ to_draw[k].shape # None
           /\ Len(PrimitivesOf(heap[placed[n].cell])) < Len(PrimitivesOf(AsPlaced(placed, n)))

(***************************************************************************)
(* Termination of the point decoder                                        *)
(***************************************************************************)
\* how many ClosePath commands the list holds
RECURSIVE ClosePaths(_)
ClosePaths(cs) ==
    IF cs = <<>> THEN 0
    ELSE (IF Head(cs).cmd_type = "ClosePath" THEN 1 ELSE 0) + ClosePaths(Tail(cs))

\* a ClosePath of the list carries parameters
ClosePathWithNumbers(cs) ==
    \E k \in 1..Len(cs) : cs[k].cmd_type = "ClosePath" /\ cs[k].params # <<>>

\* C30: on the commands of any text the decoder draws no more pairs than one
\* per coordinate pair of each M/m/L/l, one per scalar of each V/v/H/h and one
\* per Z/z (a Z/z followed by numbers included), no more primitives than one
\* per Z/z and a last one, and has drawn exactly those pairs once it has
\* returned None.
C30_DecoderTerminates ==
    /\ Len(pairs) <= Len(Origins(stream, 1))
    /\ Len(prims) <= ClosePaths(stream) + 1
    /\ dec_done => Len(pairs) = Len(Origins(stream, 1))

\* the same bound on the texts in which no Z/z is followed by numbers
TerminatesWithoutNumbersAfterClosePath ==
    ClosePathWithNumbers(stream) \/ C30_DecoderTerminates


=============================================================================
